---- MODULE Spec2Model ----
(***************************************************************************)
(* Patch codec (create_patch / apply_patch) and workspace reconciler       *)
(* (setup_clean / setup_working / output_working) of project_patcher.      *)
(*                                                                         *)
(* A text is a sequence of characters, a character a one-character string. *)
(* Python indices are kept zero-based in the operators' parameters and     *)
(* shifted by one where a TLA+ sequence is read.                           *)
(***************************************************************************)
EXTENDS Integers, Sequences, FiniteSets, TLC

(***************************************************************************)
(* Characters and str helpers                                              *)
(***************************************************************************)
NL == "\n"
CR == "\r"
FF == "\f"

\* The separators str.splitlines breaks a line at.  FF stands for every
\* one-character separator other than CR and NL (VT, FF, FS, GS, RS, NEL,
\* LS, PS), which splitlines treats alike.
LineBoundaries == {NL, CR, FF}

Digits == <<"0", "1", "2", "3", "4", "5", "6", "7", "8", "9">>

IsDigit(c) == \E d \in 1..10 : Digits[d] = c

DigitVal(c) == (CHOOSE d \in 1..10 : Digits[d] = c) - 1

\* str(n) for a natural number
RECURSIVE str(_)
str(n) == IF n < 10 THEN <<Digits[n + 1]>>
          ELSE str(n \div 10) \o <<Digits[(n % 10) + 1]>>

\* int(s) for a non-empty sequence of digits
RECURSIVE int(_)
int(s) == IF Len(s) = 1 THEN DigitVal(s[1])
          ELSE 10 * int(SubSeq(s, 1, Len(s) - 1)) + DigitVal(s[Len(s)])

\* ''.join(lines)
RECURSIVE Join(_)
Join(lines) == IF lines = <<>> THEN <<>> ELSE lines[1] \o Join(Tail(lines))

Min(x, y) == IF x < y THEN x ELSE y
Max(x, y) == IF x > y THEN x ELSE y

\* A bound of a slice of n items as Python reads it: counted from the end
\* when negative, and clamped to 0..n.
SliceBound(i, n) == IF i < 0 THEN Max(i + n, 0) ELSE Min(i, n)

SliceBetween(s, lo, hi) == IF lo >= hi THEN <<>> ELSE SubSeq(s, lo + 1, hi)

\* s[lo:hi] of Python
Slice(s, lo, hi) ==
    SliceBetween(s, SliceBound(lo, Len(s)), SliceBound(hi, Len(s)))

\* The index (one-based) of the last character of the line of s that starts
\* at index b: the first separator at or after b, with the NL of a CR NL
\* pair, or the end of s.
LineEnd(s, b) ==
    LET seps == {i \in b..Len(s) : s[i] \in LineBoundaries}
    IN  IF seps = {} THEN Len(s)
        ELSE LET i == CHOOSE k \in seps : \A q \in seps : k <= q
             IN  IF s[i] = CR /\ i < Len(s) /\ s[i + 1] = NL THEN i + 1 ELSE i

\* str.splitlines(keepends = True), from index b (one-based) on
RECURSIVE SplitFrom(_, _)
SplitFrom(s, b) ==
    IF b > Len(s) THEN <<>>
    ELSE <<SubSeq(s, b, LineEnd(s, b))>> \o SplitFrom(s, LineEnd(s, b) + 1)

splitlines(s) == SplitFrom(s, 1)

\* str.startswith
StartsWith(s, p) == Len(s) >= Len(p) /\ SubSeq(s, 1, Len(p)) = p

(***************************************************************************)
(* difflib.SequenceMatcher(None, a, b) on two lists of lines, as           *)
(* unified_diff uses it (no junk; the autojunk heuristic needs 200 lines). *)
(***************************************************************************)

\* j2len: the length of the run of equal lines that ends at a[i], b[j]
\* (zero-based) inside the window that starts at alo, blo.
RECURSIVE RunLen(_, _, _, _, _, _)
RunLen(a, b, i, j, alo, blo) ==
    IF a[i + 1] # b[j + 1] THEN 0
    ELSE IF i > alo /\ j > blo THEN 1 + RunLen(a, b, i - 1, j - 1, alo, blo)
    ELSE 1

\* The pick among the ends of runs: the longest run, the one ending (so
\* starting) earliest in a, then earliest in b.
BestEnd(a, b, alo, blo, ends) ==
    CHOOSE p \in ends :
        \A q \in ends :
            \/ RunLen(a, b, q[1], q[2], alo, blo) < RunLen(a, b, p[1], p[2], alo, blo)
            \/ /\ RunLen(a, b, q[1], q[2], alo, blo) = RunLen(a, b, p[1], p[2], alo, blo)
               /\ \/ p[1] < q[1]
                  \/ p[1] = q[1] /\ p[2] <= q[2]

\* The block (i, j, k) of the run of length k that ends at p.
BlockEndingAt(p, k) == <<p[1] - k + 1, p[2] - k + 1, k>>

BlockOf(a, b, alo, blo, p) == BlockEndingAt(p, RunLen(a, b, p[1], p[2], alo, blo))

LongestIn(a, b, alo, blo, ends) ==
    IF ends = {} THEN <<alo, blo, 0>>
    ELSE BlockOf(a, b, alo, blo, BestEnd(a, b, alo, blo, ends))

\* find_longest_match(alo, ahi, blo, bhi): (alo, blo, 0) when nothing matches
find_longest_match(a, b, alo, ahi, blo, bhi) ==
    LongestIn(a, b, alo, blo,
              {p \in (alo .. ahi - 1) \X (blo .. bhi - 1) :
                  RunLen(a, b, p[1], p[2], alo, blo) > 0})

\* The queue loop of get_matching_blocks followed by its sort: the blocks
\* left of a match m come before it and those right of it after.
RECURSIVE MatchingIn(_, _, _, _, _, _)
MatchingAround(a, b, alo, ahi, blo, bhi, m) ==
    IF m[3] = 0 THEN <<>>
    ELSE (IF alo < m[1] /\ blo < m[2]
          THEN MatchingIn(a, b, alo, m[1], blo, m[2]) ELSE <<>>)
         \o <<m>>
         \o (IF m[1] + m[3] < ahi /\ m[2] + m[3] < bhi
             THEN MatchingIn(a, b, m[1] + m[3], ahi, m[2] + m[3], bhi) ELSE <<>>)

MatchingIn(a, b, alo, ahi, blo, bhi) ==
    MatchingAround(a, b, alo, ahi, blo, bhi,
                   find_longest_match(a, b, alo, ahi, blo, bhi))

\* The collapse of adjacent blocks: cur is (i1, j1, k1).
RECURSIVE Collapse(_, _)
Collapse(blocks, cur) ==
    IF blocks = <<>> THEN (IF cur[3] > 0 THEN <<cur>> ELSE <<>>)
    ELSE LET nxt == blocks[1]
         IN  IF cur[1] + cur[3] = nxt[1] /\ cur[2] + cur[3] = nxt[2]
             THEN Collapse(Tail(blocks), <<cur[1], cur[2], cur[3] + nxt[3]>>)
             ELSE (IF cur[3] > 0 THEN <<cur>> ELSE <<>>)
                  \o Collapse(Tail(blocks), nxt)

get_matching_blocks(a, b) ==
    Collapse(MatchingIn(a, b, 0, Len(a), 0, Len(b)), <<0, 0, 0>>)
        \o <<(<<Len(a), Len(b), 0>>)>>

\* get_opcodes: i, j are the positions reached in a and b.
RECURSIVE OpcodesFrom(_, _, _)
OpcodesFrom(blocks, i, j) ==
    IF blocks = <<>> THEN <<>>
    ELSE LET ai == blocks[1][1]
             bj == blocks[1][2]
             size == blocks[1][3]
             tag == IF i < ai /\ j < bj THEN "replace"
                    ELSE IF i < ai THEN "delete"
                    ELSE IF j < bj THEN "insert"
                    ELSE ""
         IN  (IF tag # "" THEN <<(<<tag, i, ai, j, bj>>)>> ELSE <<>>)
             \o (IF size > 0
                 THEN <<(<<"equal", ai, ai + size, bj, bj + size>>)>> ELSE <<>>)
             \o OpcodesFrom(Tail(blocks), ai + size, bj + size)

get_opcodes(a, b) == OpcodesFrom(get_matching_blocks(a, b), 0, 0)

\* The number of context lines unified_diff asks for (its default n).
ContextLines == 3

\* The loop of get_grouped_opcodes over the trimmed codes; group is the
\* group being built.
RECURSIVE GroupLoop(_, _)
GroupLoop(codes, group) ==
    IF codes = <<>>
    THEN (IF group # <<>> /\ ~(Len(group) = 1 /\ group[1][1] = "equal")
          THEN <<group>> ELSE <<>>)
    ELSE LET c == codes[1]
             n == ContextLines
         IN  IF c[1] = "equal" /\ c[3] - c[2] > n + n
             THEN <<Append(group, <<c[1], c[2], Min(c[3], c[2] + n),
                                    c[4], Min(c[5], c[4] + n)>>)>>
                  \o GroupLoop(Tail(codes),
                               <<(<<c[1], Max(c[2], c[3] - n), c[3],
                                    Max(c[4], c[5] - n), c[5]>>)>>)
             ELSE GroupLoop(Tail(codes), Append(group, c))

\* The trims get_grouped_opcodes makes of a leading and a trailing 'equal'.
TrimFirst(codes, f, n) ==
    IF f[1] = "equal"
    THEN [codes EXCEPT ![1] = <<f[1], Max(f[2], f[3] - n), f[3],
                                Max(f[4], f[5] - n), f[5]>>]
    ELSE codes

TrimLast(codes, l, n) ==
    IF l[1] = "equal"
    THEN [codes EXCEPT ![Len(codes)] = <<l[1], l[2], Min(l[3], l[2] + n),
                                         l[4], Min(l[5], l[4] + n)>>]
    ELSE codes

TrimBoth(codes, n) == TrimLast(codes, codes[Len(codes)], n)

GroupTrimmed(codes, n) == GroupLoop(TrimBoth(TrimFirst(codes, codes[1], n), n), <<>>)

GroupCodes(codes) ==
    GroupTrimmed(IF codes = <<>> THEN <<(<<"equal", 0, 1, 0, 1>>)>> ELSE codes,
                 ContextLines)

get_grouped_opcodes(a, b) == GroupCodes(get_opcodes(a, b))

\* _format_range_unified(start, stop)
format_range_unified(start, stop) ==
    LET length == stop - start
        beginning == start + 1
    IN  IF length = 1 THEN str(beginning)
        ELSE str(IF length = 0 THEN beginning - 1 ELSE beginning)
             \o <<",">> \o str(length)

\* Every line of lines with the one-character prefix p in front.
Prefixed(p, lines) == [x \in 1..Len(lines) |-> <<p>> \o lines[x]]

\* The hunk lines of one opcode.
OpcodeLines(a, b, c) ==
    IF c[1] = "equal" THEN Prefixed(" ", Slice(a, c[2], c[3]))
    ELSE (IF c[1] \in {"replace", "delete"}
          THEN Prefixed("-", Slice(a, c[2], c[3])) ELSE <<>>)
         \o (IF c[1] \in {"replace", "insert"}
             THEN Prefixed("+", Slice(b, c[4], c[5])) ELSE <<>>)

RECURSIVE GroupBody(_, _, _)
GroupBody(a, b, group) ==
    IF group = <<>> THEN <<>>
    ELSE OpcodeLines(a, b, group[1]) \o GroupBody(a, b, Tail(group))

\* One hunk: its '@@ -r1 +r2 @@' line and its body.
HunkLines(a, b, group) ==
    LET first == group[1]
        last == group[Len(group)]
    IN  <<(<<"@", "@", " ", "-">> \o format_range_unified(first[2], last[3])
           \o <<" ", "+">> \o format_range_unified(first[4], last[5])
           \o <<" ", "@", "@", NL>>)>>
        \o GroupBody(a, b, group)

RECURSIVE AllHunks(_, _, _)
AllHunks(a, b, groups) ==
    IF groups = <<>> THEN <<>>
    ELSE HunkLines(a, b, groups[1]) \o AllHunks(a, b, Tail(groups))

\* A date of the header, when given, follows a tab.
HeaderDate(date) == IF date # <<>> THEN <<"\t">> \o date ELSE <<>>

DiffOfGroups(a, b, groups, fromfile, tofile, fromfiledate, tofiledate) ==
    IF groups = <<>> THEN <<>>
    ELSE <<(<<"-", "-", "-", " ">> \o fromfile \o HeaderDate(fromfiledate) \o <<NL>>),
           (<<"+", "+", "+", " ">> \o tofile \o HeaderDate(tofiledate) \o <<NL>>)>>
         \o AllHunks(a, b, groups)

\* difflib.unified_diff(a, b, fromfile, tofile, fromfiledate, tofiledate):
\* the list of the lines it yields.
unified_diff(a, b, fromfile, tofile, fromfiledate, tofiledate) ==
    DiffOfGroups(a, b, get_grouped_opcodes(a, b),
                 fromfile, tofile, fromfiledate, tofiledate)

(***************************************************************************)
(* patcher.py                                                              *)
(***************************************************************************)

\* '\ No newline at end of file'
_NO_EOL ==
    <<"\\", " ", "N", "o", " ", "n", "e", "w", "l", "i", "n", "e", " ", "a", "t", " ", "e", "n", "d", " ", "o", "f", " ", "f", "i", "l", "e">>

\* What a call returns or raises.  A raise carries no value.
Return(v) == [raised |-> FALSE, value |-> v]
Raise(msg, line) == [raised |-> TRUE, msg |-> msg, line |-> line]

\* s[i] (one-based), "" past the end
At(s, i) == IF i >= 1 /\ i <= Len(s) THEN s[i] ELSE ""

\* The index after the run of digits that starts at s[i] (i itself if none).
RECURSIVE DigitsEnd(_, _)
DigitsEnd(s, i) == IF IsDigit(At(s, i)) THEN DigitsEnd(s, i + 1) ELSE i

\* The index after an optional comma at s[i].
CommaEnd(s, i) == IF At(s, i) = "," THEN i + 1 ELSE i

\* '(\d+),?(\d+)?' read from index b1 on: where the first run of digits
\* ends, where the second starts and where it ends.
RangeAt(s, b1, e1, b2) == [b1 |-> b1, e1 |-> e1, b2 |-> b2, e2 |-> DigitsEnd(s, b2)]
RangeFrom(s, b1, e1) == RangeAt(s, b1, e1, CommaEnd(s, e1))
ReadRange(s, b1) == RangeFrom(s, b1, DigitsEnd(s, b1))

HeaderMatch(line, old, new) ==
    IF /\ StartsWith(line, <<"@", "@", " ", "-">>)
       /\ old.e1 > old.b1
       /\ At(line, old.e2) = " " /\ At(line, old.e2 + 1) = "+"
       /\ new.e1 > new.b1
       /\ At(line, new.e2) = " " /\ At(line, new.e2 + 1) = "@"
       /\ At(line, new.e2 + 2) = "@"
       /\ \/ Len(line) = new.e2 + 2
          \/ Len(line) = new.e2 + 3 /\ line[new.e2 + 3] = NL
    THEN [ok |-> TRUE,
          group |-> <<SubSeq(line, old.b1, old.e1 - 1), SubSeq(line, old.b2, old.e2 - 1),
                      SubSeq(line, new.b1, new.e1 - 1), SubSeq(line, new.b2, new.e2 - 1)>>]
    ELSE [ok |-> FALSE, group |-> <<>>]

HeaderAfterOld(line, old) == HeaderMatch(line, old, ReadRange(line, old.e2 + 2))

\* re.match(r'^@@ -(\d+),?(\d+)? \+(\d+),?(\d+)? @@$', line): ok, and the
\* four groups (<<>> for a group that took part in no match, None in Python).
\* '$' matches at the end and before a newline that ends the string.
_HUNK_HEADER(line) == HeaderAfterOld(line, ReadRange(line, 5))

\* MarkedLine with the marker forgotten: the newline alone is added.
MarkedLineNoMarker(diff) ==
    IF diff[Len(diff)] = NL THEN diff ELSE diff \o <<NL>>

\* create_patch(from_text, to_text, filename): the lines of unified_diff,
\* each followed by the marker when it does not end in a newline.
MarkedLine(diff) ==
    IF diff[Len(diff)] = NL THEN diff ELSE diff \o <<NL>> \o _NO_EOL \o <<NL>>

JoinMarked(diffs) == Join([x \in 1..Len(diffs) |-> MarkedLine(diffs[x])])

\* create_patch with the two header lines written before the hunks are
\* looked at, so also when there is none.
create_patch_always_headed(from_text, to_text, filename) ==
    <<"-", "-", "-", " ">> \o filename \o <<NL>>
        \o <<"+", "+", "+", " ">> \o filename \o <<NL>>
        \o Join(AllHunks(splitlines(from_text), splitlines(to_text),
                         get_grouped_opcodes(splitlines(from_text),
                                             splitlines(to_text))))

create_patch(from_text, to_text, filename) ==
    JoinMarked(unified_diff(splitlines(from_text), splitlines(to_text),
                            filename, filename, <<>>, <<>>))

\* create_patch as output_working calls it, with the time of the run as the
\* date of both header lines.
create_patch_at(from_text, to_text, filename, time) ==
    JoinMarked(unified_diff(splitlines(from_text), splitlines(to_text),
                            filename, filename, time, time))

\* DirectionOf with the old start also read when reverting.
DirectionOfOldOnly(revert) ==
    IF ~revert THEN [midx |-> 1, sign |-> "+"] ELSE [midx |-> 1, sign |-> "-"]

\* DirectionOf with the header fields of the two directions exchanged.
DirectionOfSwapped(revert) ==
    IF ~revert THEN [midx |-> 3, sign |-> "+"] ELSE [midx |-> 1, sign |-> "-"]

\* (midx, sign) = (1, '+') if not revert else (3, '-')
DirectionOf(revert) ==
    IF ~revert THEN [midx |-> 1, sign |-> "+"] ELSE [midx |-> 3, sign |-> "-"]

\* The 'skip header lines' loop: the index (zero-based) of the first line
\* that starts with neither '---' nor '+++'.
RECURSIVE SkipHeader(_, _)
SkipHeader(patch, i) ==
    IF i < Len(patch) /\ (\/ StartsWith(patch[i + 1], <<"-", "-", "-">>)
                          \/ StartsWith(patch[i + 1], <<"+", "+", "+">>))
    THEN SkipHeader(patch, i + 1)
    ELSE i

\* HunkCursor without the term for an explicit length of 0.
HunkCursorNoZero(m, midx) == int(m.group[midx]) - 1

\* HunkCursor with every written length taken as the length 0.
HunkCursorAnyLength(m, midx) ==
    int(m.group[midx]) - 1 + (IF m.group[midx + 1] # <<>> THEN 1 ELSE 0)

\* l = int(m.group(midx)) - 1 + (m.group(midx + 1) == '0')
HunkCursor(m, midx) ==
    int(m.group[midx]) - 1 + (IF m.group[midx + 1] = <<"0">> THEN 1 ELSE 0)

\* BadLineNum without the comparison with the cursor sl.
BadLineNumNoOrder(sl, l, text) == l > Len(text)

\* The check on a hunk's cursor l against the cursor sl and the text.
BadLineNum(sl, l, text) == sl > l \/ l > Len(text)

\* What one hunk line does: the text it adds to patched_file and the
\* amount it adds to sl.
\* LineEffect that hands on the lines of the sign only, not the context.
LineEffectNoContext(line, sign) ==
    IF Len(line) > 0
    THEN [out |-> IF line[1] = sign THEN Tail(line) ELSE <<>>,
          adv |-> IF line[1] # sign THEN 1 ELSE 0]
    ELSE [out |-> <<>>, adv |-> 0]

LineEffect(line, sign) ==
    IF Len(line) > 0
    THEN [out |-> IF line[1] = sign \/ line[1] = " " THEN Tail(line) ELSE <<>>,
          adv |-> IF line[1] # sign THEN 1 ELSE 0]
    ELSE [out |-> <<>>, adv |-> 0]

\* The two nested loops of apply_patch; i, sl and patched_file are its
\* locals, body tells whether control is in the inner loop.
RECURSIVE ApplyLoop(_, _, _, _, _, _, _)

\* One turn of the inner loop on the hunk line `line`, which took `step`
\* lines of the patch.
\* BodyLine that hands on, for a context line, the line of the text at the
\* cursor and not the line of the patch.
BodyLineFromText(text, patch, d, i, sl, patched_file, step, e) ==
    ApplyLoop(text, patch, d, TRUE, i + step, sl + e.adv,
              patched_file \o (IF e.adv = 1 /\ e.out # <<>> /\ sl < Len(text)
                               THEN text[sl + 1] ELSE e.out))

BodyLine(text, patch, d, i, sl, patched_file, step, e) ==
    ApplyLoop(text, patch, d, TRUE, i + step, sl + e.adv, patched_file \o e.out)

BodyTurn(text, patch, d, i, sl, patched_file, marked) ==
    BodyLine(text, patch, d, i, sl, patched_file,
             IF marked THEN 2 ELSE 1,
             LineEffect(IF marked
                        THEN SubSeq(patch[i + 1], 1, Len(patch[i + 1]) - 1)
                        ELSE patch[i + 1],
                        d.sign))

\* HunkAt that does not copy the lines of the text before the cursor.
HunkAtNoCopy(text, patch, d, i, sl, patched_file, l) ==
    IF BadLineNum(sl, l, text)
    THEN Raise("Bad patch -- bad line num", i)
    ELSE ApplyLoop(text, patch, d, TRUE, i + 1, l, patched_file)

\* One turn of the outer loop on a header that matched, with cursor l.
HunkAt(text, patch, d, i, sl, patched_file, l) ==
    IF BadLineNum(sl, l, text)
    THEN Raise("Bad patch -- bad line num", i)
    ELSE ApplyLoop(text, patch, d, TRUE, i + 1, l,
                   patched_file \o Join(Slice(text, sl, l)))

\* HunkTurn that gives back the text built so far when the header does not
\* match.
HunkTurnLenient(text, patch, d, i, sl, patched_file, m) ==
    IF ~m.ok THEN Return(patched_file)
    ELSE HunkAt(text, patch, d, i, sl, patched_file, HunkCursor(m, d.midx))

HunkTurn(text, patch, d, i, sl, patched_file, m) ==
    IF ~m.ok THEN Raise("Bad patch -- regex mismatch", i)
    ELSE HunkAt(text, patch, d, i, sl, patched_file, HunkCursor(m, d.midx))

ApplyLoop(text, patch, d, body, i, sl, patched_file) ==
    IF body
    THEN IF i < Len(patch) /\ patch[i + 1][1] # "@"
         THEN BodyTurn(text, patch, d, i, sl, patched_file,
                       i + 1 < Len(patch) /\ patch[i + 2][1] = "\\")
         ELSE ApplyLoop(text, patch, d, FALSE, i, sl, patched_file)
    ELSE IF i < Len(patch)
         THEN HunkTurn(text, patch, d, i, sl, patched_file,
                       _HUNK_HEADER(patch[i + 1]))
         ELSE Return(patched_file \o Join(Slice(text, sl, Len(text))))

ApplyLines(lines, plines, revert) ==
    ApplyLoop(lines, plines, DirectionOf(revert), FALSE,
              SkipHeader(plines, 0), 0, <<>>)

apply_patch(text, patch, revert) ==
    ApplyLines(splitlines(text), splitlines(patch), revert)

(***************************************************************************)
(* State                                                                   *)
(***************************************************************************)
VARIABLES
    from_text,  \* the text create_patch diffs from, and apply_patch's input
    to_text,    \* the text create_patch diffs to
    patch,      \* the patch document at hand
    stage,      \* "edit": the texts are being prepared; "created": patch is
                \* what create_patch returned; "composed": patch was written
                \* by hand
    forward,    \* what apply_patch(from_text, patch) did, Pending before
    reverted,   \* what apply_patch(to_text, patch, revert = True) did
    edits,      \* the number of edits made to to_text
    clean,      \* the clean directory: whether it exists, and its files
    working,    \* the working directory
    patches,    \* the patch directory
    out,        \* the output directory
    sources,    \* metadata.files, the sources setup_clean fetches from
    result,     \* what the last call of the workspace did
    walked      \* the patch files in the order os.walk gave them to the
                \* last apply_patches

codec_vars == <<from_text, to_text, patch, forward, reverted, edits>>
tree_vars == <<clean, working, patches, out, sources, result, walked>>
vars == <<from_text, to_text, patch, stage, forward, reverted, edits,
          clean, working, patches, out, sources, result, walked>>

\* A directory that does not exist.
NoTree == [exists |-> FALSE, files |-> <<>>]

\* No call of the workspace made yet.
NoCall == [op |-> "none"]

\* The codec is used on its own, without directories.
NoWorkspace ==
    /\ clean = NoTree /\ working = NoTree /\ patches = NoTree /\ out = NoTree
    /\ sources = <<>>
    /\ result = NoCall
    /\ walked = <<>>

\* No call made yet.
Pending == [raised |-> FALSE, pending |-> TRUE]

(***************************************************************************)
(* Inputs of the codec                                                     *)
(***************************************************************************)
MaxEdits == 2
LongLines == 8

Letters == <<"a", "b", "c", "d">>

\* LongLines lines a, b, c, d, a, b, ... each ending in a newline
LongText == Join([i \in 1..LongLines |-> <<Letters[((i - 1) % 4) + 1], NL>>])

SourceTexts ==
    { <<>>,
      <<"a", NL>>,
      <<"a">>,
      <<"a", NL, "b">>,
      <<"a", CR, NL, "b", CR, "c", FF, "d">>,
      <<NL, NL>>,
      LongText,
      SubSeq(LongText, 1, Len(LongText) - 1) }

EditLines == { <<"x", NL>>, <<"a", NL>>, <<"y">> }

\* The line positions an edit is made at in a text of n lines.
EditPositions(n) == {k \in {0, 1, n \div 2, n - 1, n} : k >= 0 /\ k <= n}

\* The file name output_working hands to create_patch.
FileName == <<"f">>

CodecInit ==
    /\ NoWorkspace
    /\ from_text \in SourceTexts
    /\ to_text = from_text
    /\ patch = <<>>
    /\ stage = "edit"
    /\ forward = Pending
    /\ reverted = Pending
    /\ edits = 0

\* The user inserts the text ln before line k of to_text.
InsertLine(k, ln) ==
    /\ stage = "edit" /\ edits < MaxEdits
    /\ LET lines == splitlines(to_text)
       IN  /\ k \in EditPositions(Len(lines))
           /\ to_text' = Join(Slice(lines, 0, k)) \o ln
                            \o Join(Slice(lines, k, Len(lines)))
    /\ edits' = edits + 1
    /\ UNCHANGED <<from_text, patch, stage, forward, reverted, tree_vars>>

\* The user deletes line k of to_text.
DeleteLine(k) ==
    /\ stage = "edit" /\ edits < MaxEdits
    /\ LET lines == splitlines(to_text)
       IN  /\ k \in EditPositions(Len(lines)) /\ k < Len(lines)
           /\ to_text' = Join(Slice(lines, 0, k))
                            \o Join(Slice(lines, k + 1, Len(lines)))
    /\ edits' = edits + 1
    /\ UNCHANGED <<from_text, patch, stage, forward, reverted, tree_vars>>

\* The user replaces to_text as a whole.
Rewrite(t) ==
    /\ stage = "edit" /\ edits < MaxEdits
    /\ t # to_text
    /\ to_text' = t
    /\ edits' = edits + 1
    /\ UNCHANGED <<from_text, patch, stage, forward, reverted, tree_vars>>

\* patch = create_patch(from_text, to_text, filename)
CreatePatch ==
    /\ stage = "edit"
    /\ patch' = create_patch(from_text, to_text, FileName)
    /\ stage' = "created"
    /\ UNCHANGED <<from_text, to_text, forward, reverted, edits, tree_vars>>

\* apply_patch(from_text, patch)
ApplyForward ==
    /\ stage \in {"created", "composed"}
    /\ forward = Pending
    /\ forward' = apply_patch(from_text, patch, FALSE)
    /\ UNCHANGED <<from_text, to_text, patch, stage, reverted, edits, tree_vars>>

\* apply_patch(to_text, patch, revert = True)
ApplyRevert ==
    /\ stage \in {"created", "composed"}
    /\ reverted = Pending
    /\ reverted' = apply_patch(to_text, patch, TRUE)
    /\ UNCHANGED <<from_text, to_text, patch, stage, forward, edits, tree_vars>>

CodecNext ==
    \/ \E k \in 0..(LongLines + MaxEdits), ln \in EditLines : InsertLine(k, ln)
    \/ \E k \in 0..(LongLines + MaxEdits) : DeleteLine(k)
    \/ \E t \in SourceTexts : Rewrite(t)
    \/ CreatePatch
    \/ ApplyForward
    \/ ApplyRevert

CodecSpec == CodecInit /\ [][CodecNext]_vars

(***************************************************************************)
(* Documents written by hand: apply_patch on any text and any document    *)
(***************************************************************************)
MaxTextLines == 4
MaxStart == 4
MaxHunks == 2

\* The first n lines of a, b, c, d, a, ...
TextOfLines(n) == Join([i \in 1..n |-> <<Letters[((i - 1) % 4) + 1], NL>>])

ApplyTexts == {TextOfLines(n) : n \in 0..MaxTextLines}

\* The ways a length is written in a header: left out, 0, 2.
LenForms == {<<>>, <<"0">>, <<"2">>}

\* '<start>' or '<start>,<length>'
RangeText(start, length) ==
    str(start) \o (IF length = <<>> THEN <<>> ELSE <<",">> \o length)

\* The line '@@ -<old> +<new> @@'
HeaderLine(old, new) ==
    <<"@", "@", " ", "-">> \o old \o <<" ", "+">> \o new \o <<" ", "@", "@", NL>>

\* The new range written next to an old range that starts at s.
NewRangeFor(s) == IF s % 2 = 0 THEN RangeText(1, <<>>) ELSE RangeText(3, <<"0">>)

\* The headers of a first hunk and of a later one.
FirstHeaders ==
    {HeaderLine(RangeText(s, f), NewRangeFor(s)) : s \in 0..MaxStart, f \in LenForms}

LaterHeaders ==
    {HeaderLine(RangeText(s, f), RangeText(s, f)) : s \in 0..MaxStart, f \in {<<>>, <<"0">>}}

\* The bodies of a first hunk and of a later one.
FirstBodies ==
    { <<>>,
      <<" ", "a", NL>>,
      <<"-", "a", NL>>,
      <<"+", "x", NL>>,
      <<"-", "a", NL, "-", "b", NL, "+", "x", NL>> \o _NO_EOL \o <<NL>> }

LaterBodies == { <<"-", "c", NL>> }

\* Lines that are no hunk header.
StrayLines ==
    { <<"@", "x", NL>>,
      <<"@", "@", " ", "-", "1", " ", "+", "1", " ", "@", "@", " ", "x", NL>>,
      <<"@", "@", " ", "-", "1", " ", "+", "1", " ", "@", "@", CR, NL>>,
      <<"+", "x", NL>> }

ApplyInit ==
    /\ NoWorkspace
    /\ from_text \in ApplyTexts
    /\ to_text = from_text
    /\ patch = <<>>
    /\ stage = "composed"
    /\ forward = Pending
    /\ reverted = Pending
    /\ edits = 0

\* The document is still being written.
Writing == stage = "composed" /\ forward = Pending /\ reverted = Pending

\* The two header lines are written at the top.
WriteFileHeader ==
    /\ Writing /\ patch = <<>>
    /\ patch' = <<"-", "-", "-", " ">> \o FileName \o <<NL>>
                    \o <<"+", "+", "+", " ">> \o FileName \o <<NL>>
    /\ UNCHANGED <<from_text, to_text, stage, forward, reverted, edits, tree_vars>>

\* A hunk is written at the end: a header and a body.
WriteHunk(header, body) ==
    /\ Writing /\ edits < MaxHunks
    /\ header \in (IF edits = 0 THEN FirstHeaders ELSE LaterHeaders)
    /\ body \in (IF edits = 0 THEN FirstBodies ELSE LaterBodies)
    /\ patch' = patch \o header \o body
    /\ edits' = edits + 1
    /\ UNCHANGED <<from_text, to_text, stage, forward, reverted, tree_vars>>

\* A line that is no hunk header is written where a header is due.
WriteStray(line) ==
    /\ Writing /\ edits < MaxHunks
    /\ patch' = patch \o line
    /\ edits' = MaxHunks
    /\ UNCHANGED <<from_text, to_text, stage, forward, reverted, tree_vars>>

ApplyNext ==
    \/ WriteFileHeader
    \/ \E h \in FirstHeaders \cup LaterHeaders, b \in FirstBodies \cup LaterBodies :
          WriteHunk(h, b)
    \/ \E l \in StrayLines : WriteStray(l)
    \/ ApplyForward
    \/ ApplyRevert

ApplySpec == ApplyInit /\ [][ApplyNext]_vars

(***************************************************************************)
(* Files and directories                                                   *)
(*                                                                         *)
(* A directory is a record: whether it exists, and the bytes of each file  *)
(* in it by the file's path relative to the directory.  Paths and bytes    *)
(* are sequences of characters; os.sep, os.extsep and os.linesep are those *)
(* of a POSIX system.                                                      *)
(***************************************************************************)
os_sep == "/"
os_extsep == "."
os_linesep == <<NL>>
os_curdir == <<".">>

\* The extension of a patch file.
_PATCH_EXTENSION == <<"p", "a", "t", "c", "h">>

\* os.path.join(dir, path)
os_path_join(dir, path) == dir \o <<os_sep>> \o path

\* The default directories, joined to os.curdir as setup_working does.
clean_dir == os_path_join(os_curdir, <<"c", "l", "e", "a", "n">>)
working_dir == os_path_join(os_curdir, <<"s", "r", "c">>)
patch_dir == os_path_join(os_curdir, <<"p", "a", "t", "c", "h", "e", "s">>)
out_dir == os_path_join(os_curdir, <<"o", "u", "t">>)

\* The index of the first c in s, 0 when there is none.
FirstOf(s, c) ==
    IF \E i \in 1..Len(s) : s[i] = c
    THEN CHOOSE i \in 1..Len(s) : s[i] = c /\ \A j \in 1..(i - 1) : s[j] # c
    ELSE 0

\* file.read() of a file opened with mode 'r': '\r\n' and '\r' are read as
\* '\n'.
RECURSIVE read_text(_)
ReadFrom(bytes, k) ==
    IF k = 0 THEN bytes
    ELSE SubSeq(bytes, 1, k - 1) \o <<NL>>
            \o read_text(SubSeq(bytes,
                                IF k < Len(bytes) /\ bytes[k + 1] = NL THEN k + 2 ELSE k + 1,
                                Len(bytes)))

read_text(bytes) == ReadFrom(bytes, FirstOf(bytes, CR))

\* file.write(text) of a file opened with mode 'w' or 'r+': '\n' is written
\* as os.linesep.
RECURSIVE write_text(_)
WriteFrom(text, k) ==
    IF k = 0 THEN text
    ELSE SubSeq(text, 1, k - 1) \o os_linesep
            \o write_text(SubSeq(text, k + 1, Len(text)))

write_text(text) == WriteFrom(text, FirstOf(text, NL))

NoFiles == [p \in {} |-> <<>>]

Tree(files) == [exists |-> TRUE, files |-> files]

Files(tree) == DOMAIN tree.files

\* os.path.exists(dir) and os.path.isdir(dir)
IsDir(tree) == tree.exists

\* os.makedirs(dir, exist_ok = True)
makedirs(tree) == Tree(tree.files)

\* shutil.copytree(src, dst, dirs_exist_ok = True)
copytree(src, dst) ==
    Tree([p \in Files(src) \cup Files(dst) |->
             IF p \in Files(src) THEN src.files[p] ELSE dst.files[p]])

\* open(path, 'w' or 'wb').write(bytes), the directory of the file made
\* first.
WriteFile(tree, path, bytes) ==
    Tree([p \in Files(tree) \cup {path} |->
             IF p = path THEN bytes ELSE tree.files[p]])

\* The directory part of a path relative to its tree: os.path.dirname.
RECURSIVE dirname(_)
dirname(path) ==
    IF path = <<>> THEN <<>>
    ELSE IF path[Len(path)] = os_sep THEN SubSeq(path, 1, Len(path) - 1)
    ELSE dirname(SubSeq(path, 1, Len(path) - 1))

\* The path is at or below the directory dir of the same tree.
Below(path, dir) == dir = <<>> \/ StartsWith(path, dir \o <<os_sep>>)

\* path names a directory of the tree: the tree itself or a directory that
\* holds one of its files.
IsDirectoryIn(tree, path) ==
    path = <<>> \/ \E p \in Files(tree) : StartsWith(p, path \o <<os_sep>>)

\* os.walk(dir) is top-down and depth-first: the files of a directory come
\* before those of its subdirectories, and those at or below one directory
\* come in a row.  The order within a directory is the file system's.
IsWalk(order) ==
    /\ \A i, j \in 1..Len(order) :
          (i < j /\ dirname(order[i]) # dirname(order[j]))
             => ~Below(order[i], dirname(order[j]))
    /\ \A i, j, k \in 1..Len(order) :
          (i < j /\ j < k /\ Below(order[k], dirname(order[i])))
             => Below(order[j], dirname(order[i]))

Orderings(S) ==
    {order \in [1..Cardinality(S) -> S] :
        \A i, j \in 1..Cardinality(S) : order[i] = order[j] => i = j}

\* The orders in which os.walk(dir) may give the files of the tree.
Walks(tree) == {order \in Orderings(Files(tree)) : IsWalk(order)}

\* An exception of the operating system or the network.
RaiseOS(kind, path) == [raised |-> TRUE, msg |-> kind, path |-> path]

(***************************************************************************)
(* project.py                                                              *)
(***************************************************************************)

\* What a call hands back along with the tree it leaves.
Left(tree, ret) == [tree |-> tree, ret |-> ret]

\* rel_path = patch_path[(len(patch_dir) + 1):-(len(_PATCH_EXTENSION) + 1)]
rel_path_of(patch_path, dir) ==
    Slice(patch_path, Len(dir) + 1, 0 - (Len(_PATCH_EXTENSION) + 1))

\* One turn of the loop of apply_patches, for the patch files of pt still to
\* visit: work is the working tree so far.
RECURSIVE ApplyEach(_, _, _)
\* PatchWritten that goes on with the next patch file when apply_patch
\* raised.
PatchWrittenSkipping(work, pt, order, rel_path, r) ==
    IF r.raised THEN ApplyEach(work, pt, Tail(order))
    ELSE ApplyEach(WriteFile(work, rel_path, write_text(r.value)), pt, Tail(order))

\* PatchWritten that has truncated the file before apply_patch gave r.
PatchWrittenTruncating(work, pt, order, rel_path, r) ==
    IF r.raised THEN Left(WriteFile(work, rel_path, <<>>), r)
    ELSE ApplyEach(WriteFile(work, rel_path, write_text(r.value)), pt, Tail(order))

\* apply_patch gave r for the file rel_path: the file is written over, or
\* the exception leaves the loop.
PatchWritten(work, pt, order, rel_path, r) ==
    IF r.raised THEN Left(work, r)
    ELSE ApplyEach(WriteFile(work, rel_path, write_text(r.value)), pt, Tail(order))

\* open(os.path.join(working_dir, rel_path), mode = 'r+') and the call of
\* apply_patch on what the two files read.
PatchOpened(work, pt, order, rel_path) ==
    IF IsDirectoryIn(work, rel_path)
    THEN Left(work, RaiseOS("IsADirectoryError", os_path_join(working_dir, rel_path)))
    ELSE IF rel_path \notin Files(work)
    THEN Left(work, RaiseOS("FileNotFoundError", os_path_join(working_dir, rel_path)))
    ELSE PatchWritten(work, pt, order, rel_path,
                      apply_patch(read_text(work.files[rel_path]),
                                  read_text(pt.files[order[1]]), FALSE))

ApplyEach(work, pt, order) ==
    IF order = <<>> THEN Left(work, Return(TRUE))
    ELSE PatchOpened(work, pt, order,
                     rel_path_of(os_path_join(patch_dir, order[1]), patch_dir))

\* apply_patches(working_dir, patch_dir), os.walk giving the patch files in
\* the given order.
apply_patches(work, pt, order) == ApplyEach(work, pt, order)

\* Copied without the copy of the clean directory.
CopiedOutOnly(cl, ou) ==
    IF IsDir(ou) THEN copytree(ou, Tree(NoFiles)) ELSE Tree(NoFiles)

\* The working directory once apply_patches is reached: made anew, the clean
\* directory copied into it, then the output directory if there is one.
Copied(cl, ou) ==
    IF IsDir(ou) THEN copytree(ou, copytree(cl, Tree(NoFiles)))
    ELSE copytree(cl, Tree(NoFiles))

\* setup_working(): what it leaves of the working directory and hands back.
SetupWorking(cl, pt, ou, order) ==
    IF ~IsDir(cl)
    THEN Left(Tree(NoFiles), RaiseOS("FileNotFoundError", clean_dir))
    ELSE IF IsDir(pt) THEN apply_patches(Copied(cl, ou), pt, order)
    ELSE Left(Copied(cl, ou), Return(TRUE))

\* PurePath(rel_path).as_posix()
as_posix(rel_path) ==
    [i \in 1..Len(rel_path) |-> IF rel_path[i] = os_sep THEN "/" ELSE rel_path[i]]

\* os.extsep.join([rel_path, _PATCH_EXTENSION])
PatchFileOf(rel_path) == rel_path \o <<os_extsep>> \o _PATCH_EXTENSION

\* The patch output_working makes of a file that the clean directory has.
FilePatch(cl, work, rel_path, time) ==
    create_patch_at(read_text(cl.files[rel_path]), read_text(work.files[rel_path]),
                    as_posix(rel_path), time)

\* Patched without the test of the patch for emptiness.
PatchedAll(cl, work, time) == Files(work) \cap Files(cl)

\* The files of the working directory that get a patch file: the clean
\* directory has them and the patch is not empty.
Patched(cl, work, time) ==
    {p \in Files(work) \cap Files(cl) : FilePatch(cl, work, p, time) # <<>>}

\* The files of the working directory that are copied to the output
\* directory.
Added(cl, work) == Files(work) \ Files(cl)

\* The patch directory output_working leaves: none when no file differs.
PatchTree(cl, work, time, S) ==
    IF S = {} THEN NoTree
    ELSE Tree([q \in {PatchFileOf(p) : p \in S} |->
                 write_text(FilePatch(cl, work,
                                      CHOOSE p \in S : PatchFileOf(p) = q, time))])

\* OutTree that copies the files through a read in text mode.
OutTreeText(work, S) ==
    IF S = {} THEN NoTree ELSE Tree([p \in S |-> read_text(work.files[p])])

\* The output directory output_working leaves: none when no file is new.
OutTree(work, S) ==
    IF S = {} THEN NoTree ELSE Tree([p \in S |-> work.files[p]])

(***************************************************************************)
(* metadata: the sources of the clean directory                            *)
(***************************************************************************)

\* os.sep.join([root_dir, self.dir]) and the name of the file below it, as a
\* path relative to root_dir.
create_path(dir, name) ==
    IF dir = os_curdir THEN name ELSE dir \o <<os_sep>> \o name

\* The loop of ProjectMetadata.setup from the file i on; resp tells how each
\* source answers, failed lists the files whose setup gave False, and asked
\* the sources a request was made to, in the order of the requests.
RECURSIVE SetupFrom(_, _, _, _, _, _)
\* ProjectFile.setup makes the directory; download_and_write then gives
\* False when the response is not ok, raises when the request fails, and
\* writes the file otherwise.
FileSetup(tree, files, resp, i, failed, asked) ==
    IF resp[i] = "error"
    THEN [tree |-> makedirs(tree), ret |-> RaiseOS("ConnectionError", files[i].url),
          requests |-> Append(asked, files[i].url)]
    ELSE IF resp[i] = "refused"
    THEN SetupFrom(makedirs(tree), files, resp, i + 1, Append(failed, files[i]),
                   Append(asked, files[i].url))
    ELSE SetupFrom(WriteFile(tree, create_path(files[i].dir, files[i].name),
                             files[i].content),
                   files, resp, i + 1, failed, Append(asked, files[i].url))

\* SetupFrom that ends the loop at the first file whose setup gave False.
SetupFromStopping(tree, files, resp, i, failed, asked) ==
    IF i > Len(files) \/ failed # <<>>
    THEN [tree |-> tree, ret |-> Return(failed = <<>>), requests |-> asked]
    ELSE FileSetup(tree, files, resp, i, failed, asked)

SetupFrom(tree, files, resp, i, failed, asked) ==
    IF i > Len(files)
    THEN [tree |-> tree, ret |-> Return(failed = <<>>), requests |-> asked]
    ELSE FileSetup(tree, files, resp, i, failed, asked)

\* metadata.setup(clean_dir)
metadata_setup(tree, files, resp) == SetupFrom(tree, files, resp, 1, <<>>, <<>>)

Responses == {"ok", "refused", "error"}

\* Invalidated that never deletes the clean directory.
InvalidatedNever(cl, invalidate_cache) == cl

\* The clean directory after the step 'if the cache should be invalidated,
\* delete the clean directory'.
Invalidated(cl, invalidate_cache) ==
    IF invalidate_cache /\ IsDir(cl) THEN NoTree ELSE cl

\* What setup_clean did: the value handed back, whether metadata.setup was
\* called, and the requests made to sources.
CleanCall(ret, fetched, requests) ==
    [op |-> "setup_clean", ret |-> ret, fetched |-> fetched, requests |-> requests]

\* CleanSetup that removes the clean directory when metadata.setup gave
\* False.
CleanSetupRolledBack(cl, r) ==
    IF IsDir(cl) THEN Left(cl, CleanCall(Return(TRUE), FALSE, <<>>))
    ELSE IF r.ret = Return(FALSE)
    THEN Left(NoTree, CleanCall(r.ret, TRUE, r.requests))
    ELSE Left(r.tree, CleanCall(r.ret, TRUE, r.requests))

\* setup_clean's last statement, r being what metadata.setup does if called.
CleanSetup(cl, r) ==
    IF IsDir(cl) THEN Left(cl, CleanCall(Return(TRUE), FALSE, <<>>))
    ELSE Left(r.tree, CleanCall(r.ret, TRUE, r.requests))

(***************************************************************************)
(* The workspace: the directories, the calls of project.py on them and the *)
(* user's changes between the calls                                        *)
(***************************************************************************)
PathF == <<"f">>
PathG == <<"g">>
PathH == <<"d", "/", "h">>
Sentinel == <<"s">>

\* The paths the user keeps files at in the working directory.
WorkPaths == {PathF, PathG, PathH}

TextA == <<"a", NL>>
TextB == <<"b">>
TextCRLF == <<"a", CR, NL, "b", NL>>

\* The bytes of the files the user writes.
FileContents == {TextA, TextCRLF}

\* The clean directories there may be from earlier runs.
CleanTrees ==
    { NoTree,
      Tree((PathF :> TextA) @@ (PathG :> TextCRLF) @@ (PathH :> TextB)) }

SourceF == [url |-> "u1", dir |-> os_curdir, name |-> PathF, content |-> TextA]
SourceH == [url |-> "u2", dir |-> <<"d">>, name |-> <<"h">>, content |-> TextB]

\* The lists of sources of a project's metadata.
SourceLists == {<<>>, <<SourceF, SourceH>>}

\* The patch files written by hand: one with a line that is no hunk header,
\* one with a hunk far past the end of any file, one that adds a line after
\* the first.
HandPatches ==
    { <<"@", "x", NL>>,
      <<"@", "@", " ", "-", "9", " ", "+", "9", " ", "@", "@", NL>>,
      <<"@", "@", " ", "-", "1", ",", "0", " ", "+", "2", " ", "@", "@", NL,
        "+", "z", NL>> }

\* The number of changes the user makes by hand.
MaxChanges == 2

\* str(datetime.now()) at the runs of output_working.
Times == {<<"1">>, <<"2">>}

\* The last thing done was a change by hand.
ByHand == [op |-> "user"]

Init ==
    /\ from_text = <<>> /\ to_text = <<>> /\ patch = <<>>
    /\ forward = Pending /\ reverted = Pending /\ edits = 0
    /\ stage = "workspace"
    /\ clean \in CleanTrees
    /\ working = NoTree /\ patches = NoTree /\ out = NoTree
    /\ sources \in SourceLists
    /\ result = NoCall
    /\ walked = <<>>

\* setup_clean(metadata, invalidate_cache = invalidate_cache); resp is how
\* the sources answer the requests, if any is made.
setup_clean(invalidate_cache, resp) ==
    /\ IsDir(Invalidated(clean, invalidate_cache))
          => resp = [i \in 1..Len(sources) |-> "ok"]
    /\ clean' = CleanSetup(Invalidated(clean, invalidate_cache),
                           metadata_setup(Invalidated(clean, invalidate_cache),
                                          sources, resp)).tree
    /\ result' = CleanSetup(Invalidated(clean, invalidate_cache),
                            metadata_setup(Invalidated(clean, invalidate_cache),
                                           sources, resp)).ret
    /\ UNCHANGED <<codec_vars, stage, working, patches, out, sources, walked>>

\* setup_working that copies the output directory into the clean directory
\* as well.
setup_working_into_clean(order) ==
    /\ working' = SetupWorking(clean, patches, out, order).tree
    /\ result' = [op |-> "setup_working",
                  ret |-> SetupWorking(clean, patches, out, order).ret]
    /\ walked' = order
    /\ clean' = IF IsDir(clean) /\ IsDir(out) THEN copytree(out, clean) ELSE clean
    /\ UNCHANGED <<codec_vars, stage, patches, out, sources>>

\* setup_working that does not remove the working directory it finds.
setup_working_kept(order) ==
    /\ working' = copytree(SetupWorking(clean, patches, out, order).tree, working)
    /\ result' = [op |-> "setup_working",
                  ret |-> SetupWorking(clean, patches, out, order).ret]
    /\ walked' = order
    /\ UNCHANGED <<codec_vars, stage, clean, patches, out, sources>>

\* setup_working(); order is the order os.walk gives the patch files in.
setup_working(order) ==
    /\ working' = SetupWorking(clean, patches, out, order).tree
    /\ result' = [op |-> "setup_working",
                  ret |-> SetupWorking(clean, patches, out, order).ret]
    /\ walked' = order
    /\ UNCHANGED <<codec_vars, stage, clean, patches, out, sources>>

\* The orders os.walk may give in a call of setup_working that reaches
\* apply_patches.
WalksNow ==
    IF IsDir(clean) /\ IsDir(patches) THEN Walks(patches) ELSE {<<>>}

\* output_working that does not remove the patch and output directories it
\* finds.
output_working_kept(time) ==
    /\ patches' = IF IsDir(patches)
                  THEN copytree(PatchTree(clean, working, time,
                                          Patched(clean, working, time)), patches)
                  ELSE PatchTree(clean, working, time, Patched(clean, working, time))
    /\ out' = IF IsDir(out)
              THEN copytree(OutTree(working, Added(clean, working)), out)
              ELSE OutTree(working, Added(clean, working))
    /\ result' = [op |-> "output_working", ret |-> Return(TRUE)]
    /\ UNCHANGED <<codec_vars, stage, clean, working, sources, walked>>

\* output_working() at the given time.
output_working(time) ==
    /\ patches' = PatchTree(clean, working, time, Patched(clean, working, time))
    /\ out' = OutTree(working, Added(clean, working))
    /\ result' = [op |-> "output_working", ret |-> Return(TRUE)]
    /\ UNCHANGED <<codec_vars, stage, clean, working, sources, walked>>

\* The user changes a file of the working directory.
EditFile(path, bytes) ==
    /\ edits < MaxChanges
    /\ IsDir(working) /\ path \in Files(working)
    /\ working.files[path] # bytes
    /\ working' = WriteFile(working, path, bytes)
    /\ result' = ByHand
    /\ edits' = edits + 1
    /\ UNCHANGED <<from_text, to_text, patch, stage, forward, reverted>>
    /\ UNCHANGED <<clean, patches, out, sources, walked>>

\* The user adds a file to the working directory.
AddFile(path, bytes) ==
    /\ edits < MaxChanges
    /\ IsDir(working) /\ path \notin Files(working)
    /\ working' = WriteFile(working, path, bytes)
    /\ result' = ByHand
    /\ edits' = edits + 1
    /\ UNCHANGED <<from_text, to_text, patch, stage, forward, reverted>>
    /\ UNCHANGED <<clean, patches, out, sources, walked>>

\* The user deletes a file of the working directory.
DeleteFile(path) ==
    /\ edits < MaxChanges
    /\ IsDir(working) /\ path \in Files(working)
    /\ working' = Tree([p \in Files(working) \ {path} |-> working.files[p]])
    /\ result' = ByHand
    /\ edits' = edits + 1
    /\ UNCHANGED <<from_text, to_text, patch, stage, forward, reverted>>
    /\ UNCHANGED <<clean, patches, out, sources, walked>>

\* A patch file written by hand is put into the patch directory.
WritePatch(path, bytes) ==
    /\ edits < MaxChanges
    /\ IF path \in Files(patches) THEN patches.files[path] # bytes ELSE TRUE
    /\ patches' = WriteFile(patches, path, bytes)
    /\ result' = ByHand
    /\ edits' = edits + 1
    /\ UNCHANGED <<from_text, to_text, patch, stage, forward, reverted>>
    /\ UNCHANGED <<clean, working, out, sources, walked>>

\* The user marks the clean directory with a file no source writes.
PutSentinel ==
    /\ edits < MaxChanges
    /\ IsDir(clean) /\ Sentinel \notin Files(clean)
    /\ clean' = WriteFile(clean, Sentinel, <<>>)
    /\ result' = ByHand
    /\ edits' = edits + 1
    /\ UNCHANGED <<from_text, to_text, patch, stage, forward, reverted>>
    /\ UNCHANGED <<working, patches, out, sources, walked>>

Next ==
    \/ \E invalidate_cache \in BOOLEAN, resp \in [1..Len(sources) -> Responses] :
          setup_clean(invalidate_cache, resp)
    \/ \E order \in WalksNow : setup_working(order)
    \/ \E time \in Times : output_working(time)
    \/ \E path \in WorkPaths, bytes \in FileContents : EditFile(path, bytes)
    \/ \E path \in WorkPaths, bytes \in FileContents : AddFile(path, bytes)
    \/ \E path \in WorkPaths : DeleteFile(path)
    \/ \E bytes \in HandPatches : WritePatch(PatchFileOf(PathF), bytes)
    \/ PutSentinel

Spec == Init /\ [][Next]_vars

(***************************************************************************)
(* Properties of the codec                                                 *)
(***************************************************************************)
PatchLines == splitlines(patch)

\* The number of hunks of the document at hand.
HunkCount == Cardinality({x \in 1..Len(PatchLines) : PatchLines[x][1] = "@"})

MarkerLine == _NO_EOL \o <<NL>>

\* t ends in a line without terminator.
Unterminated(t) == t # <<>> /\ t[Len(t)] \notin LineBoundaries

\* C1: for all texts A and B, apply_patch(A, create_patch(A, B)) returns
\* exactly B.
C1_RoundTripIdentity ==
    (stage = "created" /\ forward # Pending) => forward = Return(to_text)

\* A two-hunk patch was created and applied.
C1_Witness ==
    /\ stage = "created" /\ forward = Return(to_text)
    /\ from_text # to_text /\ HunkCount >= 2

\* C2: for all texts A and B, apply_patch(B, create_patch(A, B), revert =
\* True) returns exactly A.
C2_ReverseInverse ==
    (stage = "created" /\ reverted # Pending) => reverted = Return(from_text)

\* A two-hunk patch was created and reverted, the texts differing in length.
C2_Witness ==
    /\ stage = "created" /\ reverted = Return(from_text)
    /\ Len(splitlines(from_text)) # Len(splitlines(to_text)) /\ HunkCount >= 2

\* A str is true when it is not empty.
Truthy(s) == s # <<>>

\* C4: create_patch(A, A) is the empty document (no header, no hunk), which
\* a caller testing it for truth takes as nothing to write.
C4_NoOpEmptiness ==
    (stage = "created" /\ from_text = to_text) => (patch = <<>> /\ ~Truthy(patch))

\* A patch of a text of several lines against itself was created.
C4_Witness ==
    stage = "created" /\ from_text = to_text /\ Len(splitlines(from_text)) >= 2

\* The index of the last line of P among the indices xs.
LastOf(xs) == CHOOSE i \in xs : \A j \in xs : j <= i

\* The range (start, length) groups g, g + 1 of the header h declare: does
\* it end at line n?
EndsAt(h, g, n) ==
    LET start == int(h.group[g])
        length == IF h.group[g + 1] = <<>> THEN 1 ELSE int(h.group[g + 1])
    IN  length > 0 /\ start + length - 1 = n

\* The last line of text t has no terminator and lies in the range that
\* groups g, g + 1 of the last header of the lines P declare.
TailInLastHunkOf(P, t, g) ==
    /\ Unterminated(t)
    /\ P # <<>>
    /\ EndsAt(_HUNK_HEADER(P[LastOf({x \in 1..Len(P) : P[x][1] = "@"})]),
              g, Len(splitlines(t)))

TailInLastHunk(t, g) == TailInLastHunkOf(PatchLines, t, g)

\* The hunk line x of P is the line u with a newline added, and the marker
\* is the line directly after it.
MarkedAt(P, x, u) ==
    /\ Tail(P[x]) = u \o <<NL>>
    /\ x < Len(P)
    /\ P[x + 1] = MarkerLine

\* The last hunk line (after the two header lines) of P with a prefix among
\* marks is the last line of t, marked.
MarkerAfterTailOf(P, lines, xs) ==
    xs # {} /\ MarkedAt(P, LastOf(xs), lines[Len(lines)])

MarkerAfterTailIn(P, t, marks) ==
    MarkerAfterTailOf(P, splitlines(t), {x \in 3..Len(P) : P[x][1] \in marks})

MarkerAfterTail(t, marks) == MarkerAfterTailIn(PatchLines, t, marks)

\* C5: when the last line of A or of B lacks a terminator, the marker
\* directly follows each hunk line made from such a line, and the round
\* trip holds exactly in both directions.
C5_NoTrailingNewlineFidelity ==
    (stage = "created" /\ (Unterminated(from_text) \/ Unterminated(to_text))) =>
        /\ TailInLastHunk(from_text, 1) => MarkerAfterTail(from_text, {" ", "-"})
        /\ TailInLastHunk(to_text, 3) => MarkerAfterTail(to_text, {" ", "+"})
        /\ forward # Pending => forward = Return(to_text)
        /\ reverted # Pending => reverted = Return(from_text)

\* A patch between a text without final terminator and one with it was
\* created, carries the marker, and was applied both ways.
C5_Witness ==
    /\ stage = "created"
    /\ Unterminated(from_text) /\ to_text # <<>> /\ ~Unterminated(to_text)
    /\ TailInLastHunk(from_text, 1)
    /\ forward = Return(to_text) /\ reverted = Return(from_text)

(***************************************************************************)
(* Properties of apply_patch on any document                               *)
(***************************************************************************)

\* The headers of the document at hand that have the shape of a hunk header.
MatchingHeaders ==
    {x \in 1..Len(PatchLines) : _HUNK_HEADER(PatchLines[x]).ok}

\* The old start a header declares.
old_start(line) == int(_HUNK_HEADER(line).group[1])

\* C6: applying (revert = False) a document with a hunk header whose old
\* start exceeds the number of lines of the input raises, and no text is
\* returned.
C6_MalformedHunkRejection ==
    (/\ stage = "composed" /\ forward # Pending
     /\ \E x \in MatchingHeaders :
           old_start(PatchLines[x]) > Len(splitlines(from_text)))
        => forward.raised

\* Where a reading of the lines P in direction d stops, told from the
\* headers alone: at the "end" of P, at the line i (zero-based) of a header
\* that does not match ("mismatch"), whose cursor is before the cursor sl
\* the lines read so far leave ("order"), or is past the n lines of the
\* input ("range").  x is the index (one-based) of the line looked at.
RECURSIVE Reading(_, _, _, _, _, _)
ReadingHeader(P, d, n, x, sl, m) ==
    IF ~m.ok THEN [kind |-> "mismatch", i |-> x - 1]
    ELSE IF HunkCursor(m, d.midx) < sl THEN [kind |-> "order", i |-> x - 1]
    ELSE IF HunkCursor(m, d.midx) > n THEN [kind |-> "range", i |-> x - 1]
    ELSE Reading(P, d, n, x + 1, HunkCursor(m, d.midx), TRUE)

ReadingBody(P, d, n, x, sl, marked) ==
    Reading(P, d, n, IF marked THEN x + 2 ELSE x + 1,
            IF P[x][1] # d.sign /\ ~(marked /\ Len(P[x]) = 1) THEN sl + 1 ELSE sl,
            TRUE)

Reading(P, d, n, x, sl, body) ==
    IF x > Len(P) THEN [kind |-> "end", i |-> x - 1]
    ELSE IF body /\ P[x][1] # "@"
         THEN ReadingBody(P, d, n, x, sl, x < Len(P) /\ P[x + 1][1] = "\\")
         ELSE ReadingHeader(P, d, n, x, sl, _HUNK_HEADER(P[x]))

ReadingOf(text, revert) ==
    Reading(PatchLines, DirectionOf(revert), Len(splitlines(text)),
            SkipHeader(PatchLines, 0) + 1, 0, FALSE)

\* The call with the given result raised the error msg at the line where
\* the reading r stops.
RaisedAt(res, r, msg) == res = Raise(msg, r.i)

\* C7: a hunk whose cursor lies before the cursor left by the body of the
\* hunk before it (0 for the first hunk) makes apply_patch raise; it does
\* not clamp the cursor or go on.
C7_OutOfOrderHunkRejection ==
    /\ (forward # Pending /\ ReadingOf(from_text, FALSE).kind = "order")
          => RaisedAt(forward, ReadingOf(from_text, FALSE), "Bad patch -- bad line num")
    /\ (reverted # Pending /\ ReadingOf(to_text, TRUE).kind = "order")
          => RaisedAt(reverted, ReadingOf(to_text, TRUE), "Bad patch -- bad line num")

\* A second hunk that starts before the end of the first one was refused.
C7_Witness ==
    /\ stage = "composed" /\ forward # Pending
    /\ ReadingOf(from_text, FALSE).kind = "order"
    /\ ReadingOf(from_text, FALSE).i > 0
    /\ forward.raised

\* C8: a line at a hunk-header position that has not the shape
\* '@@ -a,b +c,d @@' makes apply_patch raise; the line is not skipped and
\* the text built so far is not returned.
C8_BadHeaderRejection ==
    /\ (forward # Pending /\ ReadingOf(from_text, FALSE).kind = "mismatch")
          => RaisedAt(forward, ReadingOf(from_text, FALSE), "Bad patch -- regex mismatch")
    /\ (reverted # Pending /\ ReadingOf(to_text, TRUE).kind = "mismatch")
          => RaisedAt(reverted, ReadingOf(to_text, TRUE), "Bad patch -- regex mismatch")

\* A line that is no header was met after a first hunk that had copied
\* lines of the input, and the call raised.
C8_Witness ==
    /\ stage = "composed" /\ forward # Pending
    /\ ReadingOf(from_text, FALSE).kind = "mismatch"
    /\ ReadingOf(from_text, FALSE).i > 2
    /\ forward.raised

(***************************************************************************)
(* Properties of the workspace                                             *)
(***************************************************************************)

\* The working directory holds every file of the clean directory: it is a
\* copy of it with files changed and files added, none deleted.
DerivedFromClean ==
    IsDir(clean) /\ IsDir(working) /\ Files(clean) \subseteq Files(working)

\* C3: for a working directory W made from a copy of the clean directory C
\* by changing and adding files, output_working followed by setup_working
\* gives back a working directory with the files and the bytes of W.
C3_ReconciliationRoundTrip ==
    [][(/\ result.op = "output_working"
        /\ result'.op = "setup_working"
        /\ DerivedFromClean)
          => (result'.ret = Return(TRUE) /\ working' = working)]_vars

\* The file of the working directory the patch file q is applied to.
TargetOf(q) == rel_path_of(os_path_join(patch_dir, q), patch_dir)

\* The working directory of the last setup_working before any patch.
Base == Copied(clean, out)

\* What apply_patch does with the patch file q on the file it is for.
Applying(q) ==
    apply_patch(read_text(Base.files[TargetOf(q)]), read_text(patches.files[q]),
                FALSE)

\* The patch file q has a file to be applied to.
HasTarget(q) == TargetOf(q) \in Files(Base) /\ ~IsDirectoryIn(Base, TargetOf(q))

\* apply_patch fails for the patch file q.
Fails(q) == HasTarget(q) /\ Applying(q).raised

\* The first index of the traversal at which the run stops: the file to
\* patch cannot be opened or apply_patch fails.
FirstStop ==
    CHOOSE k \in 1..Len(walked) :
        /\ ~HasTarget(walked[k]) \/ Fails(walked[k])
        /\ \A j \in 1..(k - 1) : HasTarget(walked[j]) /\ ~Fails(walked[j])

\* The last setup_working stopped at index k of the traversal: the patches
\* before k are applied, the files of the patches from k on are as copied,
\* and True is not returned.
StoppedAt(k) ==
    /\ result.ret.raised
    /\ result.ret # Return(TRUE)
    /\ Fails(walked[k]) => result.ret = Applying(walked[k])
    /\ Files(working) = Files(Base)
    /\ \A j \in k..Len(walked) :
          HasTarget(walked[j])
             => working.files[TargetOf(walked[j])] = Base.files[TargetOf(walked[j])]
    /\ \A j \in 1..(k - 1) :
          working.files[TargetOf(walked[j])] = write_text(Applying(walked[j]).value)

\* C9: when apply_patch fails for a patch file during setup_working, the
\* call ends with a failure at the first patch file of the traversal that
\* fails: that file is not skipped, no later patch is applied, and True is
\* not returned.
C9_MalformedPatchAborts ==
    (/\ result.op = "setup_working"
     /\ IsDir(clean) /\ IsDir(patches)
     /\ \E k \in 1..Len(walked) : Fails(walked[k]))
        => StoppedAt(FirstStop)

\* A run stopped at a malformed patch that came first in the traversal, and
\* the patch after it, which applies and would change its file, was left
\* out.
C9_Witness ==
    /\ result.op = "setup_working" /\ IsDir(clean) /\ IsDir(patches)
    /\ Len(walked) = 2
    /\ Fails(walked[1])
    /\ HasTarget(walked[2]) /\ ~Fails(walked[2])
    /\ write_text(Applying(walked[2]).value) # Base.files[TargetOf(walked[2])]
    /\ working.files[TargetOf(walked[2])] = Base.files[TargetOf(walked[2])]
    /\ result.ret.raised

\* The path is one a source writes its file to.
FromSource(path) ==
    \E i \in 1..Len(sources) :
        create_path(sources[i].dir, sources[i].name) = path

\* What C10 says of a call of setup_clean with the given invalidate_cache.
CacheRespected(invalidate_cache) ==
    /\ result'.fetched <=> (~IsDir(clean) \/ invalidate_cache)
    /\ (~invalidate_cache /\ IsDir(clean))
          => /\ result'.ret = Return(TRUE)
             /\ result'.requests = <<>>
             /\ clean' = clean
    /\ (invalidate_cache /\ IsDir(clean))
          => /\ result'.fetched
             /\ \A p \in Files(clean') : FromSource(p)
    /\ (~invalidate_cache /\ result.op = "setup_clean")
          => result'.requests = <<>>

AfterOutput == result.op = "output_working" /\ result.ret = Return(TRUE)

\* The file at path has the same bytes in the clean and the working
\* directory.
Identical(path) ==
    /\ path \in Files(clean) /\ path \in Files(working)
    /\ clean.files[path] = working.files[path]

\* C11: after output_working a file with the same content in the clean and
\* the working directory has no patch file in the patch directory and no
\* copy in the output directory.
C11_UnchangedFileSkip ==
    AfterOutput
       => \A p \in Files(working) :
             Identical(p) => (PatchFileOf(p) \notin Files(patches) /\ p \notin Files(out))

\* output_working wrote a patch for one file and none for another, which
\* is the same in both directories.
C11_Witness ==
    /\ AfterOutput
    /\ IsDir(patches)
    /\ \E p \in Files(working) : Identical(p) /\ PatchFileOf(p) \notin Files(patches)

\* C12: after output_working every file of the working directory that the
\* clean directory has no file for at the same path is in the output
\* directory at that path with the same bytes, and has no patch file.
C12_NewFileDetection ==
    AfterOutput
       => \A p \in Files(working) \ Files(clean) :
             /\ p \in Files(out)
             /\ out.files[p] = working.files[p]
             /\ PatchFileOf(p) \notin Files(patches)

\* A new file with carriage returns in it was copied to the output
\* directory, next to a patch for another file.
C12_Witness ==
    /\ AfterOutput
    /\ IsDir(clean) /\ IsDir(patches)
    /\ \E p \in Files(working) \ Files(clean) :
          /\ p \in Files(out)
          /\ out.files[p] = TextCRLF


\* The sources of the metadata, in the order they are declared.
Declared == [i \in 1..Len(sources) |-> sources[i].url]

\* What C13 says of a call of metadata.setup in which the sources answer
\* as resp tells and none of them raises.
Aggregated(resp) ==
    /\ result'.requests = Declared
    /\ result'.ret = Return(\A i \in 1..Len(sources) : resp[i] = "ok")

\* C13: ProjectMetadata.setup sets up every declared source in the order of
\* declaration, goes on after a source that returns False, and returns True
\* if and only if every source returned True.
C13_SourceFetchAggregation ==
    [][result'.op = "setup_clean"
         => \A invalidate_cache \in BOOLEAN, resp \in [1..Len(sources) -> Responses] :
               (/\ setup_clean(invalidate_cache, resp)
                /\ result'.fetched
                /\ \A i \in 1..Len(sources) : resp[i] # "error")
                  => Aggregated(resp)]_vars

\* The first of two sources gave False; the second was asked all the same
\* and its file written, and False was returned.
C13_Witness ==
    /\ result.op = "setup_clean" /\ result.fetched
    /\ result.ret = Return(FALSE)
    /\ Len(result.requests) = 2
    /\ Files(clean) = {create_path(SourceH.dir, SourceH.name)}


\* C14: once the clean directory exists neither setup_working nor
\* output_working changes anything in it; output_working leaves the working
\* directory as it is, and setup_working the patch and the output
\* directories.
C14_FrameOfDirections ==
    [][/\ result'.op = "setup_working"
          => /\ IsDir(clean) => clean' = clean
             /\ patches' = patches
             /\ out' = out
       /\ result'.op = "output_working"
          => /\ IsDir(clean) => clean' = clean
             /\ working' = working]_vars

\* setup_working built the working directory from a clean directory, new
\* files and patches, all of which are still there.
C14_Witness ==
    /\ result.op = "setup_working" /\ result.ret = Return(TRUE)
    /\ walked # <<>>
    /\ IsDir(clean) /\ IsDir(patches) /\ IsDir(out)
    /\ working # clean


(***************************************************************************)
(* Properties of the hunks apply_patch reads                               *)
(***************************************************************************)

\* The roles C15 gives the lines of a hunk: those whose first character is
\* in kept go to the output, those whose first character is in read move
\* the input cursor by one.
Roles(revert) ==
    IF ~revert THEN [kept |-> {" ", "+"}, read |-> {" ", "-"}]
    ELSE [kept |-> {" ", "-"}, read |-> {" ", "+"}]

\* Every line of the lines P is a header, a context, added or removed line,
\* or a marker right after one of these.
RoleLinesOnly(P) ==
    \A x \in 1..Len(P) :
        \/ P[x][1] \in {"@", " ", "+", "-"}
        \/ P[x][1] = "\\" /\ x > 1 /\ P[x - 1][1] \in {" ", "+", "-"}

\* The text a reading of the lines P from line x (one-based) on gives by the
\* roles r, for a reading that ends without an error: T are the lines of the
\* input, sl the input cursor, acc the output so far and midx the header
\* field the cursor of a hunk is read from.
RECURSIVE ByRoles(_, _, _, _, _, _, _)
ByRolesLine(P, T, r, midx, x, sl, acc, line, step) ==
    ByRoles(P, T, r, midx, x + step,
            IF line # <<>> /\ line[1] \in r.read THEN sl + 1 ELSE sl,
            IF line # <<>> /\ line[1] \in r.kept THEN acc \o Tail(line) ELSE acc)

ByRolesHunk(P, T, r, midx, x, sl, acc, l) ==
    ByRoles(P, T, r, midx, x + 1, l, acc \o Join(Slice(T, sl, l)))

ByRoles(P, T, r, midx, x, sl, acc) ==
    IF x > Len(P) THEN acc \o Join(Slice(T, sl, Len(T)))
    ELSE IF P[x][1] = "@"
    THEN ByRolesHunk(P, T, r, midx, x, sl, acc, HunkCursor(_HUNK_HEADER(P[x]), midx))
    ELSE IF x < Len(P) /\ P[x + 1][1] = "\\"
    THEN ByRolesLine(P, T, r, midx, x, sl, acc, SubSeq(P[x], 1, Len(P[x]) - 1), 2)
    ELSE ByRolesLine(P, T, r, midx, x, sl, acc, P[x], 1)

\* The output the roles give for the document at hand on the given text.
ByRolesOf(text, revert) ==
    ByRoles(PatchLines, splitlines(text), Roles(revert), DirectionOf(revert).midx,
            SkipHeader(PatchLines, 0) + 1, 0, <<>>)

\* C15: with revert = False apply_patch hands context and '+' lines to the
\* output and drops '-' lines, and moves the input cursor by one for each
\* context or '-' line; with revert = True '+' and '-' change places.
C15_DirectionRoles ==
    /\ (/\ forward # Pending /\ RoleLinesOnly(PatchLines)
        /\ ReadingOf(from_text, FALSE).kind = "end")
          => forward = Return(ByRolesOf(from_text, FALSE))
    /\ (/\ reverted # Pending /\ RoleLinesOnly(PatchLines)
        /\ ReadingOf(to_text, TRUE).kind = "end")
          => reverted = Return(ByRolesOf(to_text, TRUE))

\* A document with removed and added lines was applied in both directions
\* to the same text, with different results.
C15_Witness ==
    /\ stage = "composed"
    /\ forward # Pending /\ ~forward.raised
    /\ reverted # Pending /\ ~reverted.raised
    /\ forward.value # reverted.value
    /\ \E x, y \in 1..Len(PatchLines) :
          PatchLines[x][1] = "-" /\ PatchLines[y][1] = "+"


\* What apply_patch does on the text with the document at hand if the cursor
\* of each hunk is read from the header field midx (1: old start and
\* length, 3: new start and length) and the lines of the given sign are the
\* added ones: the text by the roles, or the error of the first header that
\* is no header or whose cursor is out of order or out of range.
OutcomeAt(text, revert, r, midx) ==
    IF r.kind = "end"
    THEN Return(ByRoles(PatchLines, splitlines(text), Roles(revert), midx,
                        SkipHeader(PatchLines, 0) + 1, 0, <<>>))
    ELSE IF r.kind = "mismatch" THEN Raise("Bad patch -- regex mismatch", r.i)
    ELSE Raise("Bad patch -- bad line num", r.i)

OutcomeWith(text, revert, sign, midx) ==
    OutcomeAt(text, revert,
              Reading(PatchLines, [midx |-> midx, sign |-> sign],
                      Len(splitlines(text)), SkipHeader(PatchLines, 0) + 1, 0, FALSE),
              midx)

\* C16 as stated: with revert = False the offsets of apply_patch are those
\* of the new start and length of the hunk headers, with revert = True those
\* of the old start and length.
C16_FieldsAsStated ==
    /\ (forward # Pending /\ RoleLinesOnly(PatchLines))
          => forward = OutcomeWith(from_text, FALSE, "+", 3)
    /\ (reverted # Pending /\ RoleLinesOnly(PatchLines))
          => reverted = OutcomeWith(to_text, TRUE, "-", 1)

\* C16 amended: with revert = False the offsets of apply_patch are those of
\* the old start and length of the hunk headers (the input is the old
\* text), with revert = True those of the new start and length.
C16_DirectionFieldSelection ==
    /\ (forward # Pending /\ RoleLinesOnly(PatchLines))
          => forward = OutcomeWith(from_text, FALSE, "+", 1)
    /\ (reverted # Pending /\ RoleLinesOnly(PatchLines))
          => reverted = OutcomeWith(to_text, TRUE, "-", 3)

\* A document whose first header gives different cursors by its old and its
\* new fields was applied in both directions, and the forward call returned
\* a text.
C16_Witness ==
    /\ stage = "composed"
    /\ forward # Pending /\ ~forward.raised
    /\ reverted # Pending
    /\ RoleLinesOnly(PatchLines)
    /\ \E x \in MatchingHeaders :
          HunkCursor(_HUNK_HEADER(PatchLines[x]), 1)
             # HunkCursor(_HUNK_HEADER(PatchLines[x]), 3)


\* The cursor of a header by the convention: the start where the length of
\* the direction is written as 0, the start less one where it is left out
\* or is another number.
CursorAsStated(m, midx) ==
    IF m.group[midx + 1] = <<"0">> THEN int(m.group[midx])
    ELSE int(m.group[midx]) - 1

\* The line (one-based) of the first hunk header of the document, 0 if the
\* document has no line there or the line is no header.
FirstHunk ==
    IF SkipHeader(PatchLines, 0) + 1 \in MatchingHeaders
    THEN SkipHeader(PatchLines, 0) + 1 ELSE 0

\* The result res of a call on the text acts at the cursor c of the first
\* hunk: out of the text, the call raises at the header; in it, the call
\* goes past the header and what it returns starts with the first c lines.
ActsAt(res, text, c) ==
    IF c < 0 \/ c > Len(splitlines(text))
    THEN res = Raise("Bad patch -- bad line num", FirstHunk - 1)
    ELSE IF res.raised THEN res.line > FirstHunk - 1
    ELSE StartsWith(res.value, Join(Slice(splitlines(text), 0, c)))

Drop(s, n) == SubSeq(s, n + 1, Len(s))

\* The output `rest` still to account for, from line x of the document P
\* with the text T read up to sl, is made of the untouched lines where they
\* stand: the lines of T from sl to the cursor of each header, in front of
\* what the body of the hunk hands on, and the lines of T past the range
\* the last hunk read, at the end and with nothing after them.
RECURSIVE Untouched(_, _, _, _, _, _, _)
UntouchedAfter(P, T, r, midx, x, sl, rest, part) ==
    /\ StartsWith(rest, part)
    /\ Untouched(P, T, r, midx, x, sl, Drop(rest, Len(part)))

UntouchedLine(P, T, r, midx, x, sl, rest, line, step) ==
    UntouchedAfter(P, T, r, midx, x + step,
                   IF line # <<>> /\ line[1] \in r.read THEN sl + 1 ELSE sl,
                   rest,
                   IF line # <<>> /\ line[1] \in r.kept THEN Tail(line) ELSE <<>>)

UntouchedHunk(P, T, r, midx, x, sl, rest, l) ==
    UntouchedAfter(P, T, r, midx, x + 1, l, rest, Join(Slice(T, sl, l)))

Untouched(P, T, r, midx, x, sl, rest) ==
    IF x > Len(P) THEN rest = Join(Slice(T, sl, Len(T)))
    ELSE IF P[x][1] = "@"
    THEN UntouchedHunk(P, T, r, midx, x, sl, rest,
                       HunkCursor(_HUNK_HEADER(P[x]), midx))
    ELSE IF x < Len(P) /\ P[x + 1][1] = "\\"
    THEN UntouchedLine(P, T, r, midx, x, sl, rest, SubSeq(P[x], 1, Len(P[x]) - 1), 2)
    ELSE UntouchedLine(P, T, r, midx, x, sl, rest, P[x], 1)

UntouchedOf(text, revert, value) ==
    Untouched(PatchLines, splitlines(text), Roles(revert), DirectionOf(revert).midx,
              SkipHeader(PatchLines, 0) + 1, 0, value)

\* C18: every line of the input before the cursor of the first hunk, between
\* the range one hunk read and the cursor of the next, and after the range
\* the last hunk read is in what apply_patch returns as it was, once and in
\* its order.
C18_UntouchedLinesPreserved ==
    /\ (forward # Pending /\ ~forward.raised /\ RoleLinesOnly(PatchLines))
          => UntouchedOf(from_text, FALSE, forward.value)
    /\ (reverted # Pending /\ ~reverted.raised /\ RoleLinesOnly(PatchLines))
          => UntouchedOf(to_text, TRUE, reverted.value)

\* A document of two hunks was applied to the text a, b, c, d: the first
\* hunk put x after a, the second took c away, and a, b and d, the lines
\* before, between and after the two, are in the result.
C18_Witness ==
    /\ stage = "composed"
    /\ Cardinality(MatchingHeaders) = 2
    /\ from_text = TextOfLines(4)
    /\ forward = Return(<<"a", NL, "x", NL, "b", NL, "d", NL>>)


(***************************************************************************)
(* Properties of the files apply_patches writes                            *)
(***************************************************************************)
\* The file at the path of the working directory is whole: it is as it was
\* copied, or it is all of what apply_patch returned for a patch file of
\* the traversal that is for it.
Whole(path) ==
    \/ working.files[path] = Base.files[path]
    \/ \E k \in 1..Len(walked) :
          /\ TargetOf(walked[k]) = path
          /\ HasTarget(walked[k]) /\ ~Fails(walked[k])
          /\ working.files[path] = write_text(Applying(walked[k]).value)

\* C19: apply_patches writes a file of the working directory over only with
\* all of what apply_patch returned for it; the file for which apply_patch
\* fails is on disk what it was before the attempt.
C19_NoHalfAppliedFile ==
    (/\ result.op = "setup_working"
     /\ IsDir(clean) /\ IsDir(patches))
        => /\ Files(working) = Files(Base)
           /\ \A path \in Files(working) : Whole(path)
           /\ \A k \in 1..Len(walked) :
                 Fails(walked[k])
                    => working.files[TargetOf(walked[k])]
                          = Base.files[TargetOf(walked[k])]

\* apply_patch failed for a patch file whose file is not empty, after the
\* patch file before it in the traversal had been applied and had changed
\* its file; the file of the failure is as copied.
C19_Witness ==
    /\ result.op = "setup_working" /\ IsDir(clean) /\ IsDir(patches)
    /\ Len(walked) = 2
    /\ HasTarget(walked[1]) /\ ~Fails(walked[1])
    /\ working.files[TargetOf(walked[1])] # Base.files[TargetOf(walked[1])]
    /\ Fails(walked[2])
    /\ result.ret = Applying(walked[2])
    /\ Base.files[TargetOf(walked[2])] # <<>>
    /\ working.files[TargetOf(walked[2])] = Base.files[TargetOf(walked[2])]


(***************************************************************************)
(* Properties of the working directory setup_working makes                 *)
(***************************************************************************)
\* The last call was a setup_working that returned True.
AfterSetup == result.op = "setup_working" /\ result.ret = Return(TRUE)

\* The files of the clean directory and of the output directory.
CleanAndOut == Files(clean) \cup (IF IsDir(out) THEN Files(out) ELSE {})

\* A setup_working right after a setup_working that returned True leaves
\* the working directory and the result as they are.
Rebuilt ==
    (AfterSetup /\ result'.op = "setup_working")
       => working' = working /\ result'.ret = Return(TRUE)

\* C20: after a setup_working that returned True the files of the working
\* directory are those of the clean directory and of the output directory,
\* whatever the working directory held before, and a second setup_working
\* right after it gives the same working directory.
C20_WorkingTreeRebuilt ==
    /\ [](AfterSetup => Files(working) = CleanAndOut)
    /\ [][Rebuilt]_vars

\* setup_working returned True after the user had changed the working
\* directory of an earlier run by hand (the only changes made: no patch
\* file, no output directory, no mark in the clean directory), and the
\* working directory is the clean directory again.
C20_Witness ==
    /\ AfterSetup
    /\ edits = MaxChanges
    /\ patches = NoTree /\ out = NoTree
    /\ Sentinel \notin Files(clean)
    /\ Files(clean) # {}
    /\ working = copytree(clean, Tree(NoFiles))


(***************************************************************************)
(* Properties of the steps of setup_working                                *)
(***************************************************************************)
\* The content of the file at the path once the clean directory was copied
\* into the new working directory and the output directory over it.
PostOverlay(path) ==
    IF IsDir(out) /\ path \in Files(out) THEN out.files[path]
    ELSE clean.files[path]

\* The patch directory has a patch file for the path.
HasPatch(path) == IsDir(patches) /\ PatchFileOf(path) \in Files(patches)

\* C21: setup_working makes the working directory anew, copies the clean
\* directory into it, then the output directory if there is one, then
\* applies each patch file once, forward, to the file it is for: after a
\* setup_working that returned True a file with a patch file holds
\* apply_patch(content after the copies, patch document), and any other
\* file holds the content after the copies.
C21_ForwardStepOrder ==
    AfterSetup =>
        /\ Files(working) = CleanAndOut
        /\ \A path \in Files(working) :
              IF HasPatch(path)
              THEN Return(working.files[path])
                      = apply_patch(PostOverlay(path),
                                    patches.files[PatchFileOf(path)], FALSE)
              ELSE working.files[path] = PostOverlay(path)


(***************************************************************************)
(* Properties of the paths of the patch files                              *)
(***************************************************************************)
\* The file at the path is in the clean and in the working directory with
\* different contents.
Differs(path) ==
    /\ path \in Files(clean) /\ path \in Files(working)
    /\ clean.files[path] # working.files[path]

\* The patch directory has, at the path with the patch suffix, the patch
\* create_patch makes of the clean and the working content of the path.
PatchAt(path) ==
    /\ IsDir(patches)
    /\ PatchFileOf(path) \in Files(patches)
    /\ \E time \in Times :
          patches.files[PatchFileOf(path)]
             = create_patch_at(clean.files[path], working.files[path],
                               as_posix(path), time)

\* C22: for a file of the working directory at the path p that the clean
\* directory has with another content, output_working writes
\* create_patch(clean content, working content) to p.patch below the patch
\* directory, and apply_patches takes p.patch back to the path p of the
\* working directory, at every depth.
C22_PatchPathMapping ==
    AfterOutput
       => \A p \in Files(working) :
             Differs(p) => (PatchAt(p) /\ TargetOf(PatchFileOf(p)) = p)


(***************************************************************************)
(* Properties of the directories output_working makes                      *)
(***************************************************************************)
\* The patch file q is that of a file of the working directory that the
\* clean directory has with other bytes.
FromChangedFile(q) ==
    \E p \in Files(working) \cap Files(clean) :
        q = PatchFileOf(p) /\ ~Identical(p)

\* C23: after output_working the patch directory and the output directory
\* hold only what comes of the working directory as it is: every patch
\* file is that of a file the working directory has and that differs from
\* its clean file, every file of the output directory is a file of the
\* working directory, with its bytes, that the clean directory does not
\* have; nothing an earlier run left is there.
C23_ReverseRunRegenerates ==
    AfterOutput
       => /\ \A q \in Files(patches) : FromChangedFile(q)
          /\ \A p \in Files(out) :
                /\ p \in Files(working) \ Files(clean)
                /\ out.files[p] = working.files[p]

\* The patch file the last setup_working read is gone after
\* output_working, the file it is for being the same as its clean file now.
C23_Witness ==
    /\ AfterOutput
    /\ Len(walked) = 1
    /\ walked[1] \notin Files(patches)
    /\ Identical(TargetOf(walked[1]))


(***************************************************************************)
(* Properties of the order of the traversals                               *)
(***************************************************************************)
\* A step of setup_working leaves the working directory that every order of
\* the traversal of the patch directory gives.
AnyOrderForward ==
    result'.op = "setup_working"
       => \A order \in WalksNow :
             working' = SetupWorking(clean, patches, out, order).tree

\* A step of output_working right after an output_working, the working
\* directory being as it was, leaves the patch directory and the output
\* directory as they are.
SameOutputAgain ==
    (result.op = "output_working" /\ result'.op = "output_working")
       => (patches' = patches /\ out' = out)

\* C24: for given clean, working, patch and output directories the
\* directories output_working and setup_working make are the same for every
\* order in which the files are visited, and two runs of output_working on
\* a working directory that did not change make the same patch directory
\* and the same output directory.
C24_TraversalOrderIndependence == [][AnyOrderForward /\ SameOutputAgain]_vars


(***************************************************************************)
(* Properties of a fetch that failed                                       *)
(***************************************************************************)
\* The last call was a setup_clean whose fetch gave False.
AfterFailedFetch ==
    result.op = "setup_clean" /\ result.fetched /\ result.ret = Return(FALSE)

\* The files of the sources that answered ok are in the clean directory.
Fetched(tree, resp) ==
    \A i \in 1..Len(sources) :
        resp[i] = "ok"
           => /\ create_path(sources[i].dir, sources[i].name) \in Files(tree)
              /\ tree.files[create_path(sources[i].dir, sources[i].name)]
                    = sources[i].content

\* A call of setup_clean whose fetch gives False leaves the clean directory
\* with what the sources that answered wrote.
NotRolledBack ==
    (result'.op = "setup_clean" /\ result'.fetched /\ result'.ret = Return(FALSE))
       => /\ IsDir(clean')
          /\ \A invalidate_cache \in BOOLEAN, resp \in [1..Len(sources) -> Responses] :
                setup_clean(invalidate_cache, resp) => Fetched(clean', resp)

\* A call of setup_clean without invalidate_cache right after one whose
\* fetch gave False makes no fetch, returns True and leaves the clean
\* directory as it is.
MaskedOnRetry ==
    (AfterFailedFetch /\ result'.op = "setup_clean")
       => \A invalidate_cache \in BOOLEAN :
             (/\ ~invalidate_cache
              /\ \E resp \in [1..Len(sources) -> Responses] :
                    setup_clean(invalidate_cache, resp))
                => /\ ~result'.fetched
                   /\ result'.requests = <<>>
                   /\ result'.ret = Return(TRUE)
                   /\ clean' = clean

\* C25: when the fetch of setup_clean gives False because a source failed,
\* what was written below the clean directory stays; a later setup_clean
\* without invalidate_cache finds the directory, fetches nothing and
\* returns True.
C25_FailedFetchMasked == [][NotRolledBack /\ MaskedOnRetry]_vars

\* A setup_clean without fetch returned True on a clean directory that
\* lacks the file of a declared source: the fetch before it had failed.
C25_Witness ==
    /\ result.op = "setup_clean" /\ ~result.fetched
    /\ result.ret = Return(TRUE)
    /\ IsDir(clean)
    /\ edits = 0
    /\ \E i \in 1..Len(sources) :
          create_path(sources[i].dir, sources[i].name) \notin Files(clean)
    /\ \E i \in 1..Len(sources) :
          create_path(sources[i].dir, sources[i].name) \in Files(clean)


(***************************************************************************)
(* metadata.py: decoding the description of the sources                    *)
(***************************************************************************)
\* An exception of the given class.
RaiseError(kind) == [raised |-> TRUE, msg |-> kind]

\* GitProjectFile.__VALID_BRANCH_TYPES
VALID_BRANCH_TYPES == {"branch", "commit", "tag"}

\* ProjectFile.__init__'s default for dir
DefaultDir == os_curdir

\* OSFProjectFile(id, dir) and URLProjectFile(url, dir)
OSFProjectFile(id, dir) == Return([kind |-> "osf", id |-> id, dir |-> dir])
URLProjectFile(url, dir) == Return([kind |-> "url", url |-> url, dir |-> dir])

\* GitProjectFile(repository, branch, branch_type, dir): the raise of line
\* 159 names __VALID_BRANCH_TYPES without self, which is a NameError.
GitProjectFile(repository, branch, branch_type, dir) ==
    IF branch_type \notin VALID_BRANCH_TYPES THEN RaiseError("NameError")
    ELSE Return([kind |-> "git", repository |-> repository, branch |-> branch,
                 branch_type |-> branch_type, dir |-> dir])

\* The values of the keys of the objects to decode.
ValueOf ==
    [id |-> "i", url |-> "u", repository |-> "r", dir |-> <<"d">>,
     branch |-> "main", tag |-> "v1", commit |-> "c0", ref |-> "x"]

\* file['dir'] if 'dir' in file, the default of the constructor if not
DirOf(file) == IF "dir" \in file.has THEN ValueOf["dir"] ELSE DefaultDir

\* The branch of from_json_object for an object of the type git.
DecodeGit(file) ==
    IF "branch" \in file.has
    THEN GitProjectFile(ValueOf["repository"], ValueOf["branch"], "branch", DirOf(file))
    ELSE IF "tag" \in file.has
    THEN GitProjectFile(ValueOf["repository"], ValueOf["tag"], "tag", DirOf(file))
    ELSE IF "commit" \in file.has
    THEN GitProjectFile(ValueOf["repository"], ValueOf["commit"], "commit", DirOf(file))
    ELSE GitProjectFile(ValueOf["repository"], "None", "branch", DirOf(file))

\* The loop of from_json_object from the object i on, acc being the list
\* files so far: an object of no known type appends nothing.
RECURSIVE DecodeFrom(_, _, _)
DecodeAppend(objs, i, acc, made) ==
    IF made.raised THEN made ELSE DecodeFrom(objs, i + 1, Append(acc, made.value))

DecodeFrom(objs, i, acc) ==
    IF i > Len(objs) THEN Return(acc)
    ELSE IF objs[i].type = "osf"
    THEN DecodeAppend(objs, i, acc, OSFProjectFile(ValueOf["id"], DirOf(objs[i])))
    ELSE IF objs[i].type = "url"
    THEN DecodeAppend(objs, i, acc, URLProjectFile(ValueOf["url"], DirOf(objs[i])))
    ELSE IF objs[i].type = "git"
    THEN DecodeAppend(objs, i, acc, DecodeGit(objs[i]))
    ELSE DecodeFrom(objs, i + 1, acc)

\* from_json_object(obj), objs being obj['files']
from_json_object(objs) == DecodeFrom(objs, 1, <<>>)

\* The most objects a description lists.
MaxFiles == 2

\* The objects of a description: a type and the keys it has besides the
\* one that names the source.
FileObjects ==
    [type : {"osf", "url", "svn"}, has : {{}, {"dir"}}]
       \cup [type : {"git"},
             has : {{}, {"dir"}, {"branch"}, {"tag"}, {"commit"}, {"ref"},
                    {"branch", "tag"}, {"tag", "dir"}}]

\* The kinds a GitProjectFile is constructed with.
BranchTypes == VALID_BRANCH_TYPES \cup {"ref"}

DecodeInit ==
    /\ from_text = <<>> /\ to_text = <<>> /\ patch = <<>>
    /\ forward = Pending /\ reverted = Pending /\ edits = 0
    /\ stage = "decode"
    /\ clean = NoTree /\ working = NoTree /\ patches = NoTree /\ out = NoTree
    /\ sources = <<>>
    /\ result = NoCall
    /\ walked = <<>>

\* An object is added to the list 'files' of the description.
Describe(file) ==
    /\ result = NoCall /\ Len(sources) < MaxFiles
    /\ sources' = Append(sources, file)
    /\ UNCHANGED <<codec_vars, stage, clean, working, patches, out, result, walked>>

\* from_json_object on the description.
Decode ==
    /\ result = NoCall
    /\ result' = [op |-> "from_json_object", ret |-> from_json_object(sources)]
    /\ UNCHANGED <<codec_vars, stage, clean, working, patches, out, sources, walked>>

\* GitProjectFile(...) with the given branch_type.
Construct(branch_type) ==
    /\ result = NoCall
    /\ result' = [op |-> "GitProjectFile", branch_type |-> branch_type,
                  ret |-> GitProjectFile(ValueOf["repository"], ValueOf["branch"],
                                         branch_type, DefaultDir)]
    /\ UNCHANGED <<codec_vars, stage, clean, working, patches, out, sources, walked>>

DecodeNext ==
    \/ \E file \in FileObjects : Describe(file)
    \/ Decode
    \/ \E branch_type \in BranchTypes : Construct(branch_type)

DecodeSpec == DecodeInit /\ [][DecodeNext]_vars

\* The object is of a type the decoder knows.
Supported(file) == file.type \in {"osf", "url", "git"}

\* C26: a GitProjectFile constructed with a kind that is not branch, commit
\* or tag raises, and decoding a description with an object of a type that
\* is not supported raises; what is decoded has a source for every object
\* of the description, none left out.
C26_ConfigurationErrorsEager ==
    /\ (result.op = "GitProjectFile" /\ result.branch_type \notin VALID_BRANCH_TYPES)
          => result.ret.raised
    /\ result.op = "from_json_object"
          => /\ (\E i \in 1..Len(sources) : ~Supported(sources[i]))
                   => result.ret.raised
             /\ ~result.ret.raised => Len(result.ret.value) = Len(sources)


(***************************************************************************)
(* Properties of the lines of the input under the hunks                    *)
(***************************************************************************)
\* The lines of the input (counted from 1) that the hunk lines of the
\* document P read in the direction d, from line x of P on with the cursor
\* at sl: each hunk line that is not of the sign of the direction reads the
\* line at the cursor.
RECURSIVE Consumed(_, _, _, _, _, _)
ConsumedBody(P, d, x, sl, acc, marked) ==
    IF P[x][1] # d.sign /\ ~(marked /\ Len(P[x]) = 1)
    THEN Consumed(P, d, IF marked THEN x + 2 ELSE x + 1, sl + 1, TRUE, acc \cup {sl + 1})
    ELSE Consumed(P, d, IF marked THEN x + 2 ELSE x + 1, sl, TRUE, acc)

Consumed(P, d, x, sl, body, acc) ==
    IF x > Len(P) THEN acc
    ELSE IF body /\ P[x][1] # "@"
    THEN ConsumedBody(P, d, x, sl, acc, x < Len(P) /\ P[x + 1][1] = "\\")
    ELSE IF _HUNK_HEADER(P[x]).ok
    THEN Consumed(P, d, x + 1, HunkCursor(_HUNK_HEADER(P[x]), d.midx), TRUE, acc)
    ELSE acc

ConsumedOf(revert) ==
    Consumed(PatchLines, DirectionOf(revert), SkipHeader(PatchLines, 0) + 1, 0,
             FALSE, {})

\* The lines T with those of the set S replaced by another line.
Replaced(T, S) == [k \in 1..Len(T) |-> IF k \in S THEN <<"q", NL>> ELSE T[k]]

\* The call that gave res on the text gives the same on every text of as
\* many lines that differs from it only in lines the hunks read.
BlindTo(text, revert, res) ==
    \A S \in SUBSET (ConsumedOf(revert) \cap (1..Len(splitlines(text)))) :
        ApplyLines(Replaced(splitlines(text), S), PatchLines, revert) = res

\* C27: apply_patch does not compare the context and removed lines of the
\* hunks with the input: on two inputs of as many lines that are the same
\* outside the lines the hunks read, the same document in the same
\* direction gives the same output.
C27_ContextNeverChecked ==
    /\ (forward # Pending /\ ~forward.raised) => BlindTo(from_text, FALSE, forward)
    /\ (reverted # Pending /\ ~reverted.raised) => BlindTo(to_text, TRUE, reverted)

\* A document with a context line and a removed line was applied to a text
\* and to the text with other lines under the hunk, and gave the same
\* output, which has the context line as the document has it.
C27_Witness ==
    /\ stage = "composed"
    /\ forward # Pending /\ ~forward.raised
    /\ Cardinality(ConsumedOf(FALSE) \cap (1..Len(splitlines(from_text)))) >= 2
    /\ ApplyLines(Replaced(splitlines(from_text), ConsumedOf(FALSE)), PatchLines, FALSE)
          = forward
    /\ forward.value # from_text


(***************************************************************************)
(* Properties of the cursor of apply_patch                                 *)
(***************************************************************************)
\* C28: in every call of apply_patch that returns, the cursor stays within
\* the input: the hunk lines read only lines the input has, and a hunk
\* whose lines read more lines than the input has left is not accepted.
C28_CursorInsideInput ==
    /\ (forward # Pending /\ ~forward.raised)
          => ConsumedOf(FALSE) \subseteq 1..Len(splitlines(from_text))
    /\ (reverted # Pending /\ ~reverted.raised)
          => ConsumedOf(TRUE) \subseteq 1..Len(splitlines(to_text))


(***************************************************************************)
(* Properties of the files deleted from the working directory              *)
(***************************************************************************)
\* The files the clean directory has and the working directory has not.
Deleted == IF IsDir(working) THEN Files(clean) \ Files(working) ELSE {}

\* A setup_working right after output_working puts the deleted files back
\* with their clean content.
DeletedComeBack ==
    (AfterOutput /\ result'.op = "setup_working")
       => \A p \in Deleted :
             p \in Files(working') /\ working'.files[p] = clean.files[p]

\* C29: a file of the clean directory that is not in the working directory
\* gets no patch file and no file in the output directory from
\* output_working, and the setup_working that follows puts it back into
\* the working directory with its clean content.
C29_DeletionsNotRecorded ==
    /\ [](AfterOutput
            => \A p \in Deleted :
                  PatchFileOf(p) \notin Files(patches) /\ p \notin Files(out))
    /\ [][DeletedComeBack]_vars

\* output_working ran on a working directory from which the user had
\* deleted a file of the clean directory and in which another file was
\* changed: there is a patch file, and none for the deleted file.
C29_Witness ==
    /\ AfterOutput
    /\ IsDir(patches) /\ Files(patches) # {}
    /\ \E p \in Deleted :
          PatchFileOf(p) \notin Files(patches) /\ p \notin Files(out)


(***************************************************************************)
(* Properties of a setup_clean that returned True                          *)
(***************************************************************************)
\* The last call was a setup_clean that returned True.
AfterCleanSetup == result.op = "setup_clean" /\ result.ret = Return(TRUE)

\* A setup_working right after a setup_clean that returned True does not
\* fail for want of the clean directory.
CleanFound ==
    (AfterCleanSetup /\ result'.op = "setup_working")
       => result'.ret # RaiseOS("FileNotFoundError", clean_dir)

\* C30: whenever setup_clean returns True the clean directory exists,
\* whatever the list of the declared sources, the empty list too, and a
\* setup_working started right after it does not fail because the clean
\* directory is missing.
C30_SuccessImpliesCleanTree ==
    /\ [](AfterCleanSetup => IsDir(clean))
    /\ [][CleanFound]_vars

====
